---------------------------- MODULE Spec2Model ----------------------------
(***************************************************************************)
(* A model of dystonse-gtfs-importer: the temporal classifier              *)
(* (analyser/time_slots.rs), the event correlator and the per-schedule     *)
(* importer (importer/per_schedule_importer.rs), the batched writer        *)
(* (importer.rs) with the two record statements, and the directory         *)
(* orchestrator (importer/mod.rs).                                         *)
(***************************************************************************)
EXTENDS Integers, Sequences, FiniteSets, TLC

VARIABLES
    dt,           \* time_slots.rs: the NaiveDateTime handed to from_datetime
    slot_result,  \* time_slots.rs: what from_datetime returned for dt
    realtime,     \* the rows of the `realtime` table
    params_vec,   \* the batched writer's buffer of parameter sets
    call,         \* the arguments of one call of process_stop_time_update
    ret,          \* what that call computed and returned
    rt_dir,       \* the names of the files in <dir>/rt
    schedule_dir, \* the names of the files in <dir>/schedule
    imported,     \* the names of the files in <dir>/imported (target_dir)
    failed,       \* the names of the files in <dir>/failed (fail_dir)
    group,        \* process_schedule_and_realtimes: its position, files and result
    task,         \* per realtime file: the position of the worker handling it
    committed,    \* history: the parameter sets executed in committed transactions
    last_tx,      \* history: the last committed transaction and the table before it
    faults,       \* the number of database failures so far
    sweep,        \* process_all_files: its position, lists and collected group
    run           \* run_as_non_manual: its mode, position and what it has done

slotVars == <<dt, slot_result>>
dbVars   == <<realtime, params_vec>>
corrVars == <<call, ret>>
sweepVars == <<sweep>>
runVars == <<run>>

mainVars == <<rt_dir, schedule_dir, imported, failed, group, task, committed,
              last_tx, faults>>

vars == <<dt, slot_result, realtime, params_vec, call, ret, rt_dir, schedule_dir,
          imported, failed, group, task, committed, last_tx, faults, sweep, run>>

\* the realtime files of the run, by name
FILE_A == "2023-11-14-a.pb"
FILE_B == "2023-11-14-b.pb"
FILE_C == "2023-11-14-c.pb"
FILE_D == "2023-11-14-d.pb"
RtFiles == {FILE_A, FILE_B, FILE_C, FILE_D}
SCHEDULE_FILE == "2023-11-01.zip"

\* a realtime file that no group has picked up
Untouched == [pc |-> "rt", ei |-> 0, si |-> 0, res |-> "none", txfail |-> FALSE]

NoTx == [made |-> FALSE, params |-> << >>, before |-> {}, committed_before |-> {}]

\* no sweep has been started
SweepIdle ==
    [pc |-> "idle", result |-> "none", schedule_filenames |-> << >>,
     rt_filenames |-> << >>, next |-> 0, oldest_schedule_date |-> << >>,
     current_schedule_file |-> << >>, realtime_files_for_current_schedule |-> << >>,
     pairs |-> {}, skipped |-> {}, groups |-> << >>]

\* run_as_non_manual has not been called
RunIdle ==
    [mode |-> "none", pingurl |-> FALSE, pc |-> "off", result |-> "none",
     sweep_result |-> "none", created |-> FALSE, sweeps |-> 0, pings |-> 0,
     sleeps |-> 0, slept |-> 0, ping_result |-> "none"]

\* the orchestrator's state while another component is being checked
MainIdle ==
    /\ rt_dir = {}
    /\ schedule_dir = {}
    /\ imported = {}
    /\ failed = {}
    /\ group = [pc |-> "none", files |-> {}, result |-> "none"]
    /\ task = [f \in RtFiles |-> Untouched]
    /\ committed = {}
    /\ last_tx = NoTx
    /\ faults = 0
    /\ sweep = SweepIdle
    /\ run = RunIdle

\* Option<T>: None, or Some(v)
None == [some |-> FALSE]
Some(v) == [some |-> TRUE, val |-> v]
IsSome(o) == o.some
IsNone(o) == ~o.some

(***************************************************************************)
(* analyser/time_slots.rs                                                  *)
(***************************************************************************)

\* chrono::Weekday::num_days_from_monday
Mon == 0
Tue == 1
Wed == 2
Thu == 3
Fri == 4
Sat == 5
Sun == 6

TimeSlot(id, min_weekday, max_weekday, min_hour, max_hour) ==
    [id |-> id, min_weekday |-> min_weekday, max_weekday |-> max_weekday,
     min_hour |-> min_hour, max_hour |-> max_hour]

WORKDAY_MORNING          == TimeSlot(1, Mon, Fri, 4, 6)
WORKDAY_MORNING_RUSH     == TimeSlot(2, Mon, Fri, 6, 8)
WORKDAY_LATE_MORNING     == TimeSlot(3, Mon, Fri, 8, 12)
WORKDAY_NOON_RUSH        == TimeSlot(4, Mon, Fri, 12, 14)
WORKDAY_AFTERNOON        == TimeSlot(5, Mon, Fri, 14, 16)
WORKDAY_AFTERNOON_RUSH   == TimeSlot(6, Mon, Fri, 16, 18)
WORKDAY_EVENING          == TimeSlot(7, Mon, Fri, 18, 20)
SATURDAY_DAY             == TimeSlot(8, Sat, Sat, 4, 20)
SUNDAY_DAY               == TimeSlot(9, Sun, Sun, 4, 20)
NIGHT_BEFORE_WORKDAY     == TimeSlot(10, Sun, Thu, 20, 4)
NIGHT_BEFORE_WEEKEND_DAY == TimeSlot(11, Fri, Sat, 20, 4)

TIME_SLOTS ==
    << WORKDAY_MORNING, WORKDAY_MORNING_RUSH, WORKDAY_LATE_MORNING,
       WORKDAY_NOON_RUSH, WORKDAY_AFTERNOON, WORKDAY_AFTERNOON_RUSH,
       WORKDAY_EVENING, SATURDAY_DAY, SUNDAY_DAY, NIGHT_BEFORE_WORKDAY,
       NIGHT_BEFORE_WEEKEND_DAY >>

\* matches with the upper hour taken as inclusive
matches_inclusive_hour(ts, d) ==
    /\ \/ d.weekday >= ts.min_weekday /\ d.weekday <= ts.max_weekday
       \/ /\ ts.min_weekday > ts.max_weekday
          /\ (d.weekday >= ts.min_weekday \/ d.weekday <= ts.max_weekday)
    /\ \/ d.hour >= ts.min_hour /\ d.hour <= ts.max_hour
       \/ /\ ts.min_hour > ts.max_hour
          /\ (d.hour >= ts.min_hour \/ d.hour <= ts.max_hour)

\* matches without the wrap-around case for weekdays
matches_no_wrap(ts, d) ==
    /\ d.weekday >= ts.min_weekday /\ d.weekday <= ts.max_weekday
    /\ \/ d.hour >= ts.min_hour /\ d.hour < ts.max_hour
       \/ /\ ts.min_hour > ts.max_hour
          /\ (d.hour >= ts.min_hour \/ d.hour < ts.max_hour)

\* TimeSlot::matches
matches(ts, d) ==
    LET day ==
            IF d.weekday >= ts.min_weekday /\ d.weekday <= ts.max_weekday
            THEN TRUE
            ELSE IF /\ ts.min_weekday > ts.max_weekday
                    /\ (d.weekday >= ts.min_weekday \/ d.weekday <= ts.max_weekday)
                 THEN TRUE
                 ELSE FALSE
        hour ==
            IF d.hour >= ts.min_hour /\ d.hour < ts.max_hour
            THEN TRUE
            ELSE IF /\ ts.min_hour > ts.max_hour
                    /\ (d.hour >= ts.min_hour \/ d.hour < ts.max_hour)
                 THEN TRUE
                 ELSE FALSE
    IN  day /\ hour

\* the loop of from_datetime over a table: the first slot that matches, or the panic
RECURSIVE first_match(_, _, _)
first_match(table, d, i) ==
    IF i > Len(table) THEN [kind |-> "panic", id |-> 0]
    ELSE IF matches(table[i], d) THEN [kind |-> "slot", id |-> table[i].id]
    ELSE first_match(table, d, i + 1)

\* TimeSlot::from_datetime
from_datetime(d) == first_match(TIME_SLOTS, d, 1)

\* every instant of a calendar week, at minute granularity
DateTimes == [weekday : Mon..Sun, hour : 0..23, minute : 0..59]

NotCalled == [kind |-> "none", id |-> 0]

\* the classifier's state while another component is being checked
SlotsIdle ==
    /\ dt = [weekday |-> Mon, hour |-> 0, minute |-> 0]
    /\ slot_result = NotCalled

InitSlots ==
    /\ dt \in DateTimes
    /\ slot_result = NotCalled
    /\ realtime = {}
    /\ params_vec = << >>
    /\ call = [made |-> FALSE]
    /\ ret = [made |-> FALSE]
    /\ MainIdle

\* a call of TimeSlot::from_datetime(dt)
FromDatetime ==
    /\ slot_result = NotCalled
    /\ slot_result' = from_datetime(dt)
    /\ UNCHANGED <<dt, dbVars, corrVars, mainVars, sweepVars, runVars>>

NextSlots == FromDatetime

SpecSlots == InitSlots /\ [][NextSlots]_vars

\* the slots of a table that match d
MatchingSlots(table, d) == {i \in 1..Len(table) : matches(table[i], d)}

Reverse(s) == [i \in 1..Len(s) |-> s[Len(s) + 1 - i]]

\* C6: time-slot totality: for every weekday, hour and minute exactly one of the
\* eleven slots matches; from_datetime returns a slot (never the panic), and the
\* same slot when the table is walked in the opposite order.
C6_TimeSlotTotality ==
    /\ Cardinality(MatchingSlots(TIME_SLOTS, dt)) = 1
    /\ slot_result # NotCalled =>
          /\ slot_result.kind = "slot"
          /\ slot_result = first_match(Reverse(TIME_SLOTS), dt, 1)

\* from_datetime has answered for an hour of the early Sunday morning, which no
\* daytime slot covers
C6_Witness ==
    /\ slot_result.kind = "slot"
    /\ dt.weekday = Sun /\ dt.hour = 2

SlotOf(weekday, hour, minute, id) ==
    (/\ slot_result # NotCalled
     /\ dt = [weekday |-> weekday, hour |-> hour, minute |-> minute])
        => slot_result = [kind |-> "slot", id |-> id]

\* C7 as stated: Sunday 23:30 -> slot 11, Thursday 21:00 -> slot 10,
\* Saturday 10:00 -> slot 8, Tuesday 07:00 -> slot 2.
C7_Original ==
    /\ SlotOf(Sun, 23, 30, 11)
    /\ SlotOf(Thu, 21, 0, 10)
    /\ SlotOf(Sat, 10, 0, 8)
    /\ SlotOf(Tue, 7, 0, 2)

\* C7 amended: Sunday 23:30 -> slot 10 (the night before a workday),
\* Thursday 21:00 -> slot 10, Saturday 10:00 -> slot 8, Tuesday 07:00 -> slot 2.
C7_TimeSlotMapping ==
    /\ SlotOf(Sun, 23, 30, 10)
    /\ SlotOf(Thu, 21, 0, 10)
    /\ SlotOf(Sat, 10, 0, 8)
    /\ SlotOf(Tue, 7, 0, 2)

\* from_datetime has answered for Sunday 23:30
C7_Witness ==
    /\ slot_result.kind = "slot"
    /\ dt = [weekday |-> Sun, hour |-> 23, minute |-> 30]

(***************************************************************************)
(* The `realtime` table and the two record statements                      *)
(* (importer/per_schedule_importer.rs, init_record_statements)             *)
(***************************************************************************)

\* chrono::Duration::days(1) in seconds
SECONDS_PER_DAY == 86400

\* FROM_UNIXTIME(:time_of_recording): the DATETIME of a unix time (UTC session)
FROM_UNIXTIME(t) == [day |-> t \div SECONDS_PER_DAY, sec |-> t % SECONDS_PER_DAY]

\* `<` on DATETIME values
DatetimeLess(a, b) == a.day < b.day \/ (a.day = b.day /\ a.sec < b.sec)

\* the primary key of `realtime`, of a row or of a parameter set
Key(p) == <<p.source, p.route_id, p.route_variant, p.trip_id, p.date, p.stop_sequence>>

\* the row the VALUES clause of the INSERT builds from a parameter set
RowOf(p) ==
    [source |-> p.source, route_id |-> p.route_id, route_variant |-> p.route_variant,
     trip_id |-> p.trip_id, date |-> p.date, stop_sequence |-> p.stop_sequence,
     stop_id |-> p.stop_id,
     time_of_recording |-> FROM_UNIXTIME(p.time_of_recording),
     delay_arrival |-> p.delay_arrival, delay_departure |-> p.delay_departure,
     schedule_file_name |-> p.schedule_file_name]

\* the UPDATE without its time_of_recording condition: the last write wins
UpdateUnconditional(table, p) ==
    { IF Key(r) = Key(p) THEN RowOf(p) ELSE r : r \in table }

\* UPDATE `realtime` SET ... WHERE <key> = :<key> AND
\*        `time_of_recording` < FROM_UNIXTIME(:time_of_recording)
UpdateStatement(table, p) ==
    { IF /\ Key(r) = Key(p)
         /\ DatetimeLess(r.time_of_recording, FROM_UNIXTIME(p.time_of_recording))
      THEN [r EXCEPT !.stop_id = p.stop_id,
                     !.time_of_recording = FROM_UNIXTIME(p.time_of_recording),
                     !.delay_arrival = p.delay_arrival,
                     !.delay_departure = p.delay_departure,
                     !.schedule_file_name = p.schedule_file_name]
      ELSE r : r \in table }

\* a plain INSERT that does not look at the primary key
InsertAlways(table, p) == table \cup {RowOf(p)}

\* INSERT IGNORE INTO `realtime` (...) VALUES (...)
InsertIgnoreStatement(table, p) ==
    IF \E r \in table : Key(r) = Key(p) THEN table ELSE table \cup {RowOf(p)}

\* vec![update_statement, insert_statement]
Statements == <<"update", "insert">>

\* one statement executed with one parameter set
Execute(statement, table, p) ==
    IF statement = "update" THEN UpdateStatement(table, p)
    ELSE InsertIgnoreStatement(table, p)

\* tx.exec_batch(statement, params): the statement once per parameter set, in order
RECURSIVE exec_batch(_, _, _)
exec_batch(statement, table, params) ==
    IF params = << >> THEN table
    ELSE exec_batch(statement, Execute(statement, table, Head(params)), Tail(params))

\* every held statement against every accumulated parameter set, in statement order
RECURSIVE exec_statements(_, _, _)
exec_statements(statements, table, params) ==
    IF statements = << >> THEN table
    ELSE exec_statements(Tail(statements),
                         exec_batch(Head(statements), table, params), params)

(***************************************************************************)
(* The batched writer (importer.rs)                                        *)
(***************************************************************************)

\* the model's stand-in for MAX_BATCH_SIZE (1000 in importer.rs)
MaxBatchSize == 2

\* how a transaction can end: it commits, or one of its three steps fails
TxOutcomes == {"ok", "start_fail", "exec_fail", "commit_fail"}

\* write_to_database: start_transaction()?; exec_batch()?; clear(); commit()?
write_to_database(buf, table, outcome) ==
    IF outcome = "start_fail" \/ outcome = "exec_fail"
    THEN [params_vec |-> buf, realtime |-> table, ok |-> FALSE, tx |-> "failed"]
    ELSE IF outcome = "commit_fail"
    THEN [params_vec |-> << >>, realtime |-> table, ok |-> FALSE, tx |-> "failed"]
    ELSE [params_vec |-> << >>, realtime |-> exec_statements(Statements, table, buf),
          ok |-> TRUE, tx |-> "committed"]

\* add_paramter_set / add_insertion: push, then flush when the cap is exceeded
add_paramter_set(buf, table, p, outcome) ==
    LET pushed == Append(buf, p) IN
    IF Len(pushed) > MaxBatchSize
    THEN write_to_database(pushed, table, outcome)
    ELSE [params_vec |-> pushed, realtime |-> table, ok |-> TRUE, tx |-> "none"]

(***************************************************************************)
(* The static schedule (gtfs_structures::Gtfs, read-only)                  *)
(***************************************************************************)

StopTime(stop_sequence, arrival_time, departure_time, stop_id) ==
    [stop_sequence |-> stop_sequence, arrival_time |-> arrival_time,
     departure_time |-> departure_time, stop_id |-> stop_id]

\* a schedule: trip T1 with all times, T2 with stop-times that lack a time,
\* T3 without a route variant
Schedule ==
    [T1 |-> [id |-> "T1", route_variant |-> Some("V1"),
             stop_times |-> << StopTime(1, Some(28800), Some(28800), "S1"),
                               StopTime(2, Some(28920), Some(28950), "S2") >>],
     T2 |-> [id |-> "T2", route_variant |-> Some("V1"),
             stop_times |-> << StopTime(1, None, Some(36000), "S1"),
                               StopTime(2, Some(36300), None, "S2") >>],
     T3 |-> [id |-> "T3", route_variant |-> None,
             stop_times |-> << StopTime(1, Some(43200), Some(43200), "S1"),
                               StopTime(2, Some(43500), Some(43560), "S2") >>]]

\* Gtfs::get_trip
get_trip(schedule, trip_id) ==
    IF trip_id \in DOMAIN schedule THEN Some(schedule[trip_id]) ELSE None

(***************************************************************************)
(* The event correlator (importer/per_schedule_importer.rs)                *)
(***************************************************************************)

\* `x as u16` of a u32
U16_RANGE == 65536
as_u16(x) == x % U16_RANGE

\* NaiveDateTime::timestamp of the midnight of a service date (days since epoch)
timestamp(start_date) == start_date * SECONDS_PER_DAY

\* GetByEventType for StopTime
get_time(stop_time, event_type) ==
    IF event_type = "Departure" THEN stop_time.departure_time
    ELSE stop_time.arrival_time

\* struct EventTimes, and the panic of `expect("no arrival time")`
EventTimes(schedule, estimate, delay) ==
    [panic |-> FALSE, schedule |-> schedule, estimate |-> estimate, delay |-> delay]
empty == EventTimes(None, None, None)
Panicked == [panic |-> TRUE, schedule |-> None, estimate |-> None, delay |-> None]

\* EventTimes::is_empty
is_empty(t) == IsNone(t.schedule) /\ IsNone(t.estimate) /\ IsNone(t.delay)

\* schedule_trip.stop_times.iter().filter(|st| st.stop_sequence == stop_sequence as u16).nth(0)
potential_stop_time(schedule_trip, stop_sequence) ==
    LET hits == {i \in 1..Len(schedule_trip.stop_times) :
                   schedule_trip.stop_times[i].stop_sequence = as_u16(stop_sequence)}
    IN  IF hits = {} THEN None
        ELSE Some(schedule_trip.stop_times[CHOOSE i \in hits : \A j \in hits : i <= j])

\* PerScheduleImporter::get_event_times
get_event_times(event, start_date, event_type, schedule_trip, stop_sequence) ==
    IF IsNone(event) THEN empty
    ELSE IF IsNone(event.val.delay) THEN empty
    ELSE LET delay == event.val.delay.val
             st == potential_stop_time(schedule_trip, stop_sequence)
         IN  IF IsNone(st) THEN empty
             ELSE LET event_time == get_time(st.val, event_type) IN
                  IF IsNone(event_time) THEN Panicked
                  ELSE LET schedule == timestamp(start_date) + event_time.val
                           estimate == schedule + delay
                       IN  EventTimes(Some(schedule), Some(estimate), Some(delay))

\* the check of an importer that writes a row for every stop_time_update
BothEmptyUnchecked(arrival, departure) == FALSE

\* `if arrival.is_empty() && departure.is_empty() { return Ok(0); }`
BothEmpty(arrival, departure) == is_empty(arrival) /\ is_empty(departure)

\* the source tag (GTFS_DATA_SOURCE_ID)
Source == "src1"

\* what a call of process_stop_time_update leaves behind: its return value
\* (kind Ok with n, Err, or Panic), the two triples, the parameter sets it handed
\* to the writer, the writer's buffer and the table afterwards, and whether a
\* transaction ran
StuReturn(kind, n, arrival, departure, handed, buf, table, tx) ==
    [made |-> TRUE, kind |-> kind, n |-> n, arrival |-> arrival,
     departure |-> departure, handed |-> handed,
     params_vec |-> buf, realtime |-> table, tx |-> tx]

\* PerScheduleImporter::process_stop_time_update
process_stop_time_update(stop_time_update, start_date, schedule_trip, trip_id, route_id, time_of_recording, filename, buf, table, outcome) ==
    IF IsNone(stop_time_update.stop_id)
    THEN StuReturn("Err", 0, empty, empty, << >>, buf, table, "none")
    ELSE IF IsNone(stop_time_update.stop_sequence)
    THEN StuReturn("Err", 0, empty, empty, << >>, buf, table, "none")
    ELSE
    LET stop_id == stop_time_update.stop_id.val
        stop_sequence == stop_time_update.stop_sequence.val
        arrival == get_event_times(stop_time_update.arrival, start_date,
                                   "Arrival", schedule_trip, stop_sequence)
        departure == get_event_times(stop_time_update.departure, start_date,
                                     "Departure", schedule_trip, stop_sequence)
    IN  IF arrival.panic
        THEN StuReturn("Panic", 0, arrival, empty, << >>, buf, table, "none")
        ELSE IF departure.panic
        THEN StuReturn("Panic", 0, arrival, departure, << >>, buf, table, "none")
        ELSE IF BothEmpty(arrival, departure)
        THEN StuReturn("Ok", 0, arrival, departure, << >>, buf, table, "none")
        ELSE IF IsNone(schedule_trip.route_variant)
        THEN StuReturn("Err", 0, arrival, departure, << >>, buf, table, "none")
        ELSE
        LET p == [source |-> Source, route_id |-> route_id,
                  route_variant |-> schedule_trip.route_variant.val,
                  trip_id |-> trip_id, date |-> start_date,
                  stop_sequence |-> stop_sequence, stop_id |-> stop_id,
                  time_of_recording |-> time_of_recording,
                  delay_arrival |-> arrival.delay,
                  delay_departure |-> departure.delay,
                  schedule_file_name |-> filename]
            w == add_paramter_set(buf, table, p, outcome)
        IN  StuReturn(IF w.ok THEN "Ok" ELSE "Err", IF w.ok THEN 1 ELSE 0,
                      arrival, departure, <<p>>, w.params_vec, w.realtime, w.tx)

(***************************************************************************)
(* process_stop_time_update and get_event_times on bounded inputs          *)
(***************************************************************************)

\* the feed's stop_sequence values run over 0..MaxSeq and, beyond the u16 range,
\* over 65536..65536+MaxSeq
MaxSeq == 3
\* the feed's delays are the multiples of 30 s up to MaxDelay * 30 in either direction
MaxDelay == 1

FeedStopSequences == (0..MaxSeq) \cup {U16_RANGE + k : k \in 0..MaxSeq}
FeedDelays == {30 * d : d \in (-MaxDelay)..MaxDelay}

\* gtfs_rt::trip_update::StopTimeEvent: absent, without delay, or with a delay
StopTimeEvents ==
    {None, Some([delay |-> None])} \cup {Some([delay |-> Some(d)]) : d \in FeedDelays}

\* gtfs_rt::trip_update::StopTimeUpdate
StopTimeUpdates ==
    [stop_id : {None, Some("S2")},
     stop_sequence : {None} \cup {Some(n) : n \in FeedStopSequences},
     arrival : StopTimeEvents,
     departure : StopTimeEvents]

\* the service dates of the feed: 2023-11-14, as days since the epoch
ServiceDates == {19675}
ServiceDate == CHOOSE d \in ServiceDates : TRUE

\* a parameter set of an earlier stop_time_update, waiting in the buffer
EarlierParams ==
    [source |-> Source, route_id |-> "R1", route_variant |-> "V1", trip_id |-> "T1",
     date |-> ServiceDate, stop_sequence |-> 1, stop_id |-> "S1",
     time_of_recording |-> 1700000000,
     delay_arrival |-> Some(0), delay_departure |-> Some(0),
     schedule_file_name |-> "schedule-2023-11-01.zip"]

\* the writer's buffer before the call: empty, or filled up to the cap
BuffersBefore == { << >>, [i \in 1..MaxBatchSize |-> EarlierParams] }

InitCorr ==
    /\ SlotsIdle
    /\ realtime = {}
    /\ params_vec \in BuffersBefore
    /\ \E stu \in StopTimeUpdates, trip_id \in DOMAIN Schedule :
         call = [made |-> TRUE, stop_time_update |-> stu, trip_id |-> trip_id,
                 schedule_trip |-> Schedule[trip_id], start_date |-> ServiceDate,
                 buffer |-> params_vec]
    /\ ret = [made |-> FALSE]
    /\ MainIdle

\* one call of process_stop_time_update with the arguments of `call`
CallProcessStopTimeUpdate ==
    /\ call.made /\ ~ret.made
    /\ \E outcome \in TxOutcomes :
         ret' = process_stop_time_update(call.stop_time_update, call.start_date,
                    call.schedule_trip, call.trip_id, "R1", 1700000000,
                    "schedule-2023-11-01.zip", params_vec, realtime, outcome)
    /\ params_vec' = ret'.params_vec
    /\ realtime' = ret'.realtime
    /\ UNCHANGED <<slotVars, call, mainVars, sweepVars, runVars>>

NextCorr == CallProcessStopTimeUpdate

SpecCorr == InitCorr /\ [][NextCorr]_vars

\* the feed's event of a stop_time_update carries a delay
HasDelay(event) == IsSome(event) /\ IsSome(event.val.delay)

\* C4: empty-row suppression: process_stop_time_update hands a parameter set to
\* the writer only if the arrival or the departure triple is non-empty; a
\* stop_time_update with neither an arrival delay nor a departure delay hands
\* nothing to the writer, leaves buffer and table as they were, and is counted
\* as 0 written (Ok(0) when stop_id and stop_sequence are present, never Ok(1)).
C4_EmptyRowSuppression ==
    ret.made =>
      /\ ret.handed # << >> => (~is_empty(ret.arrival) \/ ~is_empty(ret.departure))
      /\ (/\ ~HasDelay(call.stop_time_update.arrival)
          /\ ~HasDelay(call.stop_time_update.departure)) =>
            /\ ret.handed = << >>
            /\ params_vec = call.buffer
            /\ realtime = {}
            /\ ret.n = 0
            /\ (/\ IsSome(call.stop_time_update.stop_id)
                /\ IsSome(call.stop_time_update.stop_sequence)) => ret.kind = "Ok"

\* a complete stop_time_update whose two events are present without a delay has
\* been processed and counted as 0
C4_Witness ==
    /\ ret.made
    /\ call.stop_time_update.arrival = Some([delay |-> None])
    /\ call.stop_time_update.departure = Some([delay |-> None])
    /\ IsSome(call.stop_time_update.stop_id)
    /\ call.stop_time_update.stop_sequence = Some(2)
    /\ ret.kind = "Ok" /\ ret.n = 0

\* the triple of one event is entirely empty, or complete and computed from the
\* stop-time whose stop_sequence equals the update's
TripleCorrect(t, event, event_type) ==
    \/ IsNone(t.schedule) /\ IsNone(t.estimate) /\ IsNone(t.delay)
    \/ /\ IsSome(t.schedule) /\ IsSome(t.estimate) /\ IsSome(t.delay)
       /\ HasDelay(event)
       /\ t.delay.val = event.val.delay.val
       /\ t.estimate.val - t.schedule.val = event.val.delay.val
       /\ \E i \in 1..Len(call.schedule_trip.stop_times) :
            LET st == call.schedule_trip.stop_times[i] IN
            /\ st.stop_sequence = call.stop_time_update.stop_sequence.val
            /\ IsSome(get_time(st, event_type))
            /\ t.schedule.val
                 = call.start_date * SECONDS_PER_DAY + get_time(st, event_type).val

\* C5: correlation identity: each triple get_event_times returns is entirely
\* empty or complete, with schedule = service-date midnight + scheduled seconds of
\* the stop-time whose stop_sequence equals the update's, delay = the feed's delay
\* d and estimate - schedule = d; the delay handed to the writer equals d.
C5_CorrelationIdentity ==
    (ret.made /\ ret.kind # "Panic") =>
      /\ TripleCorrect(ret.arrival, call.stop_time_update.arrival, "Arrival")
      /\ TripleCorrect(ret.departure, call.stop_time_update.departure, "Departure")
      /\ \A i \in 1..Len(ret.handed) :
           /\ ret.handed[i].delay_arrival = ret.arrival.delay
           /\ ret.handed[i].delay_departure = ret.departure.delay

(***************************************************************************)
(* Realtime files and their decoding (handle_realtime_file)                *)
(***************************************************************************)

StopTimeEvent(delay) == Some([delay |-> delay])

StopTimeUpdate(stop_id, stop_sequence, arrival, departure) ==
    [stop_id |-> stop_id, stop_sequence |-> stop_sequence,
     arrival |-> arrival, departure |-> departure]

TripUpdate(route_id, trip_id, start_date, start_time, stop_time_update) ==
    [trip |-> [route_id |-> route_id, trip_id |-> trip_id,
               start_date |-> start_date, start_time |-> start_time],
     stop_time_update |-> stop_time_update]

FeedEntity(trip_update) == [trip_update |-> trip_update]

\* what GtfsRealtimeMessage::decode makes of each file: A is the older snapshot
\* (a stop_time_update without events, one with delays, then a trip the schedule
\* does not know); B is the newer snapshot of the same trip; C is a second
\* download of the feed of B; D cannot be decoded.
Feeds ==
    (FILE_A :> [decodable |-> TRUE, timestamp |-> Some(1699999000),
                entity |-> <<
                  FeedEntity(Some(TripUpdate(Some("R1"), Some("T1"), Some("20231114"),
                      Some("08:00:00"),
                      << StopTimeUpdate(Some("S1"), Some(1), None, None),
                         StopTimeUpdate(Some("S2"), Some(2), StopTimeEvent(Some(10)),
                                        StopTimeEvent(Some(20))) >>))),
                  FeedEntity(Some(TripUpdate(Some("R1"), Some("TX"), Some("20231114"),
                      Some("09:00:00"), << >>))) >>])
 @@ (FILE_B :> [decodable |-> TRUE, timestamp |-> Some(1700000000),
                entity |-> <<
                  FeedEntity(Some(TripUpdate(Some("R1"), Some("T1"), Some("20231114"),
                      Some("08:00:00"),
                      << StopTimeUpdate(Some("S1"), Some(1), None,
                                        StopTimeEvent(Some(0))),
                         StopTimeUpdate(Some("S2"), Some(2), StopTimeEvent(Some(30)),
                                        StopTimeEvent(Some(45))) >>))) >>])
 @@ (FILE_C :> [decodable |-> TRUE, timestamp |-> Some(1700000000),
                entity |-> <<
                  FeedEntity(Some(TripUpdate(Some("R1"), Some("T1"), Some("20231114"),
                      Some("08:00:00"),
                      << StopTimeUpdate(Some("S1"), Some(1), None,
                                        StopTimeEvent(Some(0))),
                         StopTimeUpdate(Some("S2"), Some(2), StopTimeEvent(Some(30)),
                                        StopTimeEvent(Some(45))) >>))) >>])
 @@ (FILE_D :> [decodable |-> FALSE, timestamp |-> None, entity |-> << >>])

\* NaiveDate::parse_from_str(datestring, "%Y%m%d"), as days since the epoch
parse_date(datestring) ==
    IF datestring = "20231114" THEN Some(19675)
    ELSE IF datestring = "20231115" THEN Some(19676)
    ELSE None

\* NaiveTime::parse_from_str(timestring, "%H:%M:%S").num_seconds_from_midnight()
parse_time(timestring) ==
    IF timestring = "08:00:00" THEN Some(28800)
    ELSE IF timestring = "09:00:00" THEN Some(32400)
    ELSE None

\* process_trip_update up to its loop: Err for a trip that lacks a field or is
\* not in the schedule, Panic for a first stop-time without departure_time,
\* otherwise the arguments of the calls of process_stop_time_update
trip_preamble(trip_update, schedule) ==
    LET trip == trip_update.trip
        bad == [kind |-> "Err", start_date |-> 0, trip_id |-> "", route_id |-> ""]
    IN  IF IsNone(trip.route_id) THEN bad
        ELSE IF IsNone(trip.trip_id) THEN bad
        ELSE IF IsNone(trip.start_date) THEN bad
        ELSE IF IsNone(parse_date(trip.start_date.val)) THEN bad
        ELSE IF IsNone(trip.start_time) THEN bad
        ELSE IF IsNone(parse_time(trip.start_time.val)) THEN bad
        ELSE IF IsNone(get_trip(schedule, trip.trip_id.val)) THEN bad
        ELSE LET schedule_trip == get_trip(schedule, trip.trip_id.val).val IN
             IF \/ Len(schedule_trip.stop_times) = 0
                \/ IsNone(schedule_trip.stop_times[1].departure_time)
             THEN [bad EXCEPT !.kind = "Panic"]
             ELSE [kind |-> "Ok", start_date |-> parse_date(trip.start_date.val).val,
                   trip_id |-> trip.trip_id.val, route_id |-> trip.route_id.val]

(***************************************************************************)
(* The directory orchestrator and the per-schedule importer                *)
(* (importer/mod.rs, importer/per_schedule_importer.rs)                    *)
(***************************************************************************)

\* the number of rayon worker threads
MaxWorkers == 2
\* how many database failures (a failed get_conn or a failed transaction) a run sees
MaxFaults == 1

Range(s) == {s[i] : i \in 1..Len(s)}

InitMain ==
    /\ rt_dir = RtFiles
    /\ schedule_dir = {SCHEDULE_FILE}
    /\ imported = {}
    /\ failed = {}
    /\ group = [pc |-> "none", files |-> {}, result |-> "none"]
    /\ task = [f \in RtFiles |-> Untouched]
    /\ realtime = {}
    /\ params_vec = << >>
    /\ committed = {}
    /\ last_tx = NoTx
    /\ faults = 0
    /\ sweep = SweepIdle
    /\ run = RunIdle

Init == SlotsIdle /\ call = [made |-> FALSE] /\ ret = [made |-> FALSE] /\ InitMain

\* a move that copies the file and leaves the original behind
move_file_copy(filename, from, to) ==
    [from |-> from, to |-> to \cup {filename}, ok |-> TRUE]

\* Importer::move_file_to_dir: std::fs::rename(filename, dir/<file name>)
move_file_to_dir(filename, from, to) ==
    IF filename \in from
    THEN [from |-> from \ {filename}, to |-> to \cup {filename}, ok |-> TRUE]
    ELSE [from |-> from, to |-> to, ok |-> FALSE]

\* the files a worker thread is busy with
Running == {f \in RtFiles : task[f].pc \in {"entity", "stu", "flush", "move"}}

\* what a transaction leaves in the history of writes
Record(w, buf) ==
    IF w.tx = "committed"
    THEN /\ committed' = committed \cup Range(buf)
         /\ last_tx' = [made |-> TRUE, params |-> buf, before |-> realtime,
                        committed_before |-> committed]
    ELSE UNCHANGED <<committed, last_tx>>

\* a transaction may fail while the run has failures left
Fault(w, outcome) ==
    /\ outcome # "ok" => (w.tx = "failed" /\ faults < MaxFaults)
    /\ faults' = IF w.tx = "failed" THEN faults + 1 ELSE faults

\* a group that is begun without waiting for the workers of the group before
BeginGroupEarly(G, outcome) ==
    /\ G # {} /\ G \subseteq rt_dir
    /\ \A f \in G : task[f].pc = "rt"
    /\ SCHEDULE_FILE \in schedule_dir
    /\ outcome = "ok"
    /\ group' = [pc |-> "running", files |-> G, result |-> "none"]
    /\ task' = [f \in RtFiles |->
                  IF f \in G THEN [Untouched EXCEPT !.pc = "queued"] ELSE task[f]]
    /\ params_vec' = << >>
    /\ UNCHANGED <<slotVars, corrVars, sweepVars, runVars, rt_dir, imported, realtime, committed,
                   last_tx, schedule_dir, failed, faults>>

\* process_schedule_and_realtimes up to the parallel iterator: Gtfs::new, then
\* PerScheduleImporter::new with its own writer (init_record_statements)
BeginGroup(G, outcome) ==
    /\ group.pc \in {"none", "done"}
    /\ G # {} /\ G \subseteq rt_dir
    /\ SCHEDULE_FILE \in schedule_dir
    /\ \/ /\ outcome = "parse_fail"
          /\ LET m == move_file_to_dir(SCHEDULE_FILE, schedule_dir, failed) IN
             /\ schedule_dir' = m.from
             /\ failed' = m.to
          /\ group' = [pc |-> "done", files |-> G, result |-> "err"]
          /\ UNCHANGED <<task, params_vec, faults>>
       \/ /\ outcome = "conn_fail"
          /\ faults < MaxFaults
          /\ faults' = faults + 1
          /\ group' = [pc |-> "done", files |-> G, result |-> "err"]
          /\ UNCHANGED <<task, params_vec, schedule_dir, failed>>
       \/ /\ outcome = "ok"
          /\ group' = [pc |-> "running", files |-> G, result |-> "none"]
          /\ task' = [f \in RtFiles |->
                        IF f \in G THEN [Untouched EXCEPT !.pc = "queued"] ELSE task[f]]
          /\ params_vec' = << >>
          /\ UNCHANGED <<schedule_dir, failed, faults>>
    /\ UNCHANGED <<slotVars, corrVars, sweepVars, runVars, rt_dir, imported, realtime, committed, last_tx>>

\* handle_realtime_file up to process_message: open, read, decode, timestamp
HandleRealtimeFile(f) ==
    /\ group.pc = "running"
    /\ task[f].pc = "queued"
    /\ Cardinality(Running) < MaxWorkers
    /\ LET feed == Feeds[f] IN
       task' = [task EXCEPT ![f] =
          IF ~feed.decodable \/ IsNone(feed.timestamp)
          THEN [@ EXCEPT !.pc = "move", !.res = "err"]
          ELSE IF Len(feed.entity) = 0
          THEN [@ EXCEPT !.pc = "move", !.res = "ok"]
          ELSE [@ EXCEPT !.pc = "entity", !.ei = 1]]
    /\ UNCHANGED <<slotVars, corrVars, sweepVars, runVars, dbVars, rt_dir, schedule_dir, imported, failed,
                   group, committed, last_tx, faults>>

\* process_message at one entity, and process_trip_update up to its loop
ProcessTripUpdate(f) ==
    /\ group.pc = "running"
    /\ task[f].pc = "entity"
    /\ LET entity == Feeds[f].entity[task[f].ei] IN
       task' = [task EXCEPT ![f] =
          IF IsNone(entity.trip_update) THEN [@ EXCEPT !.pc = "flush"]
          ELSE LET pre == trip_preamble(entity.trip_update.val, Schedule) IN
               IF pre.kind = "Panic" THEN [@ EXCEPT !.pc = "panicked"]
               ELSE IF pre.kind = "Err" THEN [@ EXCEPT !.pc = "flush"]
               ELSE IF Len(entity.trip_update.val.stop_time_update) = 0
               THEN [@ EXCEPT !.pc = "flush"]
               ELSE [@ EXCEPT !.pc = "stu", !.si = 1]]
    /\ UNCHANGED <<slotVars, corrVars, sweepVars, runVars, dbVars, rt_dir, schedule_dir, imported, failed,
                   group, committed, last_tx, faults>>

\* one round of the loop of process_trip_update: process_stop_time_update(...)?
ProcessStopTimeUpdate(f) ==
    /\ group.pc = "running"
    /\ task[f].pc = "stu"
    /\ \E outcome \in TxOutcomes :
         LET tu == Feeds[f].entity[task[f].ei].trip_update.val
             pre == trip_preamble(tu, Schedule)
             r == process_stop_time_update(tu.stop_time_update[task[f].si],
                      pre.start_date, Schedule[pre.trip_id], pre.trip_id, pre.route_id,
                      Feeds[f].timestamp.val, SCHEDULE_FILE, params_vec, realtime,
                      outcome)
         IN  /\ Fault(r, outcome)
             /\ Record(r, Append(params_vec, r.handed[1]))
             /\ params_vec' = r.params_vec
             /\ realtime' = r.realtime
             /\ task' = [task EXCEPT ![f] =
                  LET t == [@ EXCEPT !.txfail = @ \/ r.tx = "failed"] IN
                  IF r.kind = "Panic" THEN [t EXCEPT !.pc = "panicked"]
                  ELSE IF r.kind = "Err" THEN [t EXCEPT !.pc = "flush"]
                  ELSE IF task[f].si < Len(tu.stop_time_update)
                  THEN [t EXCEPT !.si = @ + 1]
                  ELSE [t EXCEPT !.pc = "flush"]]
    /\ UNCHANGED <<slotVars, corrVars, sweepVars, runVars, rt_dir, schedule_dir, imported, failed, group>>

\* process_message after each entity: write_to_database()?
WriteToDatabase(f) ==
    /\ group.pc = "running"
    /\ task[f].pc = "flush"
    /\ \E outcome \in TxOutcomes :
         LET w == write_to_database(params_vec, realtime, outcome) IN
         /\ Fault(w, outcome)
         /\ Record(w, params_vec)
         /\ params_vec' = w.params_vec
         /\ realtime' = w.realtime
         /\ task' = [task EXCEPT ![f] =
              IF ~w.ok THEN [@ EXCEPT !.pc = "move", !.res = "err", !.txfail = TRUE]
              ELSE IF task[f].ei < Len(Feeds[f].entity)
              THEN [@ EXCEPT !.pc = "entity", !.ei = @ + 1, !.si = 0]
              ELSE [@ EXCEPT !.pc = "move", !.res = "ok"]]
    /\ UNCHANGED <<slotVars, corrVars, sweepVars, runVars, rt_dir, schedule_dir, imported, failed, group>>

\* process_realtime after handle_realtime_file: the file goes to fail_dir on an
\* error and to target_dir otherwise
ProcessRealtime(f) ==
    /\ group.pc = "running"
    /\ task[f].pc = "move"
    /\ IF task[f].res = "err"
       THEN LET m == move_file_to_dir(f, rt_dir, failed) IN
            /\ rt_dir' = m.from
            /\ failed' = m.to
            /\ UNCHANGED imported
       ELSE LET m == move_file_to_dir(f, rt_dir, imported) IN
            /\ rt_dir' = m.from
            /\ imported' = m.to
            /\ UNCHANGED failed
    /\ task' = [task EXCEPT ![f].pc = "moved"]
    /\ UNCHANGED <<slotVars, corrVars, sweepVars, runVars, dbVars, schedule_dir, group, committed,
                   last_tx, faults>>

\* process_schedule_and_realtimes after the parallel iterator: every file of the
\* group has been handled; the importer and its writer are dropped
EndGroup ==
    /\ group.pc = "running"
    /\ \A f \in group.files : task[f].pc = "moved"
    /\ group' = [group EXCEPT !.pc = "done", !.result = "ok"]
    /\ params_vec' = << >>
    /\ UNCHANGED <<slotVars, corrVars, sweepVars, runVars, realtime, rt_dir, schedule_dir, imported, failed,
                   task, committed, last_tx, faults>>

Next ==
    \/ \E G \in SUBSET RtFiles, outcome \in {"ok", "parse_fail", "conn_fail"} :
         BeginGroup(G, outcome)
    \/ \E f \in RtFiles : HandleRealtimeFile(f)
    \/ \E f \in RtFiles : ProcessTripUpdate(f)
    \/ \E f \in RtFiles : ProcessStopTimeUpdate(f)
    \/ \E f \in RtFiles : WriteToDatabase(f)
    \/ \E f \in RtFiles : ProcessRealtime(f)
    \/ EndGroup

Spec == Init /\ [][Next]_vars

(***************************************************************************)
(* Properties of the ingestion pipeline                                    *)
(***************************************************************************)

\* the writes applied so far to one primary key
WritesTo(k) == {p \in committed : Key(p) = k}

\* the writes of a set that carry its largest time_of_recording
Newest(W) == {p \in W : \A q \in W : q.time_of_recording <= p.time_of_recording}

\* the rows stored under one primary key
RowsOf(table, k) == {r \in table : Key(r) = k}

\* C1: upsert freshness: for every primary key, after any interleaving of the
\* writes of any files and workers (each an UPDATE ... WHERE time_of_recording <
\* :time_of_recording and an INSERT IGNORE), the persisted row is the write with
\* the largest time_of_recording among the writes applied, whatever their order.
C1_UpsertFreshness ==
    \A p \in committed :
      /\ RowsOf(realtime, Key(p)) # {}
      /\ RowsOf(realtime, Key(p)) \subseteq {RowOf(q) : q \in Newest(WritesTo(Key(p)))}

\* process_schedule_and_realtimes has returned for the group
GroupProcessed == group.pc = "done"

\* where the files of the group are, against what handle_realtime_file returned
FilesSorted ==
    \A f \in group.files :
      /\ f \notin rt_dir
      /\ (f \in imported) # (f \in failed)
      /\ f \in imported <=> task[f].res = "ok"
      /\ task[f].res = "err" => f \in failed

\* C2 as stated: after a schedule group has been processed, each realtime file
\* of the group is in exactly one of imported/ and failed/ (imported/ iff
\* handle_realtime_file returned success, failed/ if it returned an error), none
\* is left in rt/ and none is in both directories.
C2_Original ==
    /\ GroupProcessed => FilesSorted
    /\ imported \cap failed = {}

\* C2 amended: the same, for a group whose schedule was parsed and whose
\* importer was constructed, so that its files were handed to the workers.
C2_FilesSorted ==
    /\ (GroupProcessed /\ group.result = "ok") => FilesSorted
    /\ imported \cap failed = {}

\* a processed group with a file that succeeded and a file that failed
C2_Witness ==
    /\ GroupProcessed /\ group.result = "ok"
    /\ \E f, g \in group.files : task[f].res = "ok" /\ task[g].res = "err"

\* C8: idempotence of ingestion: a transaction that writes again only parameter
\* sets that were written (committed) before leaves every row unchanged and
\* adds no row.
C8_Idempotence ==
    (last_tx.made /\ Range(last_tx.params) \subseteq last_tx.committed_before)
        => realtime = last_tx.before

\* the last transaction wrote to the key of row r, and every write it held for
\* that key is strictly older than r
OnlyOlderWrites(r) ==
    /\ \E p \in Range(last_tx.params) : Key(p) = Key(r)
    /\ \A p \in Range(last_tx.params) :
         Key(p) = Key(r) =>
           DatetimeLess(FROM_UNIXTIME(p.time_of_recording), r.time_of_recording)

\* C9: applying a write whose time_of_recording is strictly older than that of
\* the row stored under its primary key leaves that row unchanged in every
\* column and creates no second row.
C9_OlderWriteIgnored ==
    last_tx.made =>
      \A r \in last_tx.before :
        OnlyOlderWrites(r) => RowsOf(realtime, Key(r)) = {r}

\* an older write has been applied to a key that held a newer row
C9_Witness ==
    /\ last_tx.made
    /\ \E r \in last_tx.before : OnlyOlderWrites(r)

\* at most one row per primary key
UniqueKeys == \A r1, r2 \in realtime : Key(r1) = Key(r2) => r1 = r2

\* a step keeps every key and does not move a row's time_of_recording backwards
NoRowLost ==
    \A r \in realtime :
      \E r2 \in realtime' :
        /\ Key(r2) = Key(r)
        /\ ~DatetimeLess(r2.time_of_recording, r.time_of_recording)

\* C10: over any sequence of ingestion operations no row is deleted: the set of
\* primary keys only grows, there is at most one row per primary key, and the
\* stored time_of_recording of a key never decreases.
C10_RowsOnlyGrow == [](UniqueKeys) /\ [][NoRowLost]_vars

\* a stored row has been replaced by a newer write to its key
C10_Witness ==
    /\ last_tx.made
    /\ \E r \in last_tx.before, r2 \in realtime :
         /\ Key(r2) = Key(r)
         /\ DatetimeLess(r.time_of_recording, r2.time_of_recording)

(***************************************************************************)
(* The directory sweep (importer/mod.rs: process_all_files)                *)
(*                                                                         *)
(* A file name is the sequence of its bytes, so that the alphabetical sort *)
(* and the date regex work on what the program reads.                      *)
(***************************************************************************)

\* the decimal digits of n as bytes, two and four wide
D2(n) == <<48 + ((n \div 10) % 10), 48 + (n % 10)>>
D4(n) == <<48 + ((n \div 1000) % 10), 48 + ((n \div 100) % 10)>> \o D2(n % 100)

\* "<prefix>YYYY-MM-DD<ext>"
DatedName(prefix, y, m, d, ext) == prefix \o D4(y) \o <<45>> \o D2(m) \o <<45>> \o D2(d) \o ext

ZIP == <<46, 122, 105, 112>>
PB == <<46, 112, 98>>

\* String's Ord: bytewise lexicographic
StringLess(a, b) ==
    \E i \in 1..(Len(a) + 1) :
      /\ \A k \in 1..(i - 1) : k <= Len(b) /\ a[k] = b[k]
      /\ \/ i > Len(a) /\ i <= Len(b)
         \/ i <= Len(a) /\ i <= Len(b) /\ a[i] < b[i]

\* Vec::sort of the directory listing
RECURSIVE sort(_)
sort(names) ==
    IF names = {} THEN << >>
    ELSE LET first == CHOOSE n \in names : \A o \in names \ {n} : StringLess(n, o)
         IN  <<first>> \o sort(names \ {first})

\* Importer::read_dir_simple: the directory's entries, sorted alphabetically
read_dir_simple(dir) == sort(dir)

\* Vec::reverse
reverse(s) == [i \in 1..Len(s) |-> s[Len(s) + 1 - i]]

is_digit(c) == c \in 48..57

\* FIND_DATE = (\d{4})-(\d{2})-(\d{2}) matches at position i
find_date_at(name, i) ==
    /\ i + 9 <= Len(name)
    /\ \A k \in {0, 1, 2, 3, 5, 6, 8, 9} : is_digit(name[i + k])
    /\ name[i + 4] = 45
    /\ name[i + 7] = 45

\* str::parse of a run of w decimal digits starting at i
RECURSIVE parse(_, _, _)
parse(name, i, w) ==
    IF w = 0 THEN 0 ELSE 10 * parse(name, i, w - 1) + (name[i + w - 1] - 48)

is_leap_year(y) == ((y % 4) = 0 /\ (y % 100) # 0) \/ (y % 400) = 0

days_in_month(y, m) ==
    IF m = 2 THEN (IF is_leap_year(y) THEN 29 ELSE 28)
    ELSE IF m \in {4, 6, 9, 11} THEN 30 ELSE 31

\* NaiveDate::from_ymd_opt
from_ymd_opt(y, m, d) ==
    IF m \in 1..12 /\ d \in 1..days_in_month(y, m)
    THEN Some([year |-> y, month |-> m, day |-> d])
    ELSE None

\* Importer::date_from_filename: the first match of the regex, as a date
date_from_filename(filename) ==
    LET starts == {i \in 1..Len(filename) : find_date_at(filename, i)} IN
    IF starts = {} THEN [ok |-> FALSE, date |-> << >>]
    ELSE LET i == CHOOSE s \in starts : \A t \in starts : s <= t
             date_option == from_ymd_opt(parse(filename, i, 4), parse(filename, i + 5, 2),
                                         parse(filename, i + 8, 2))
         IN  IF IsSome(date_option) THEN [ok |-> TRUE, date |-> date_option.val]
             ELSE [ok |-> FALSE, date |-> << >>]

\* NaiveDate's Ord
DateLess(a, b) ==
    \/ a.year < b.year
    \/ a.year = b.year /\ a.month < b.month
    \/ a.year = b.year /\ a.month = b.month /\ a.day < b.day

\* the schedule files a run may find: "2023-10-01.zip", "2023-11-01.zip",
\* "b-2023-10-15.zip", "2023-11-31.zip" (no such day) and "notes" (no date)
S_OCT01 == DatedName(<< >>, 2023, 10, 1, ZIP)
S_NOV01 == DatedName(<< >>, 2023, 11, 1, ZIP)
S_B_OCT15 == DatedName(<<98, 45>>, 2023, 10, 15, ZIP)
S_NOV31 == DatedName(<< >>, 2023, 11, 31, ZIP)
S_NOTES == <<110, 111, 116, 101, 115>>
ScheduleNames == {S_OCT01, S_NOV01, S_B_OCT15, S_NOV31, S_NOTES}

\* the realtime files a run may find: "2023-10-01.pb", "2023-10-20.pb",
\* "2023-11-01.pb", "2023-11-15.pb", "2023-11-20.pb" and "x.pb" (no date)
R_OCT01 == DatedName(<< >>, 2023, 10, 1, PB)
R_OCT20 == DatedName(<< >>, 2023, 10, 20, PB)
R_NOV01 == DatedName(<< >>, 2023, 11, 1, PB)
R_NOV15 == DatedName(<< >>, 2023, 11, 15, PB)
R_NOV20 == DatedName(<< >>, 2023, 11, 20, PB)
R_X == <<120>> \o PB
\* a download whose name starts with a feed prefix: a-2023-10-25.pb
R_A_OCT25 == DatedName(<<97, 45>>, 2023, 10, 25, PB)
RtNames == {R_OCT01, R_OCT20, R_NOV01, R_NOV15, R_NOV20, R_X, R_A_OCT25}

InitSweep ==
    /\ SlotsIdle
    /\ call = [made |-> FALSE]
    /\ ret = [made |-> FALSE]
    /\ realtime = {}
    /\ params_vec = << >>
    /\ group = [pc |-> "none", files |-> {}, result |-> "none"]
    /\ task = [f \in RtFiles |-> Untouched]
    /\ committed = {}
    /\ last_tx = NoTx
    /\ faults = 0
    /\ rt_dir \in SUBSET RtNames
    /\ schedule_dir \in SUBSET ScheduleNames
    /\ imported = {}
    /\ failed = {}
    /\ sweep = SweepIdle
    /\ run = RunIdle

\* the directories, as one value
Dirs(rt, schedule, target, fail) ==
    [rt_dir |-> rt, schedule_dir |-> schedule, imported |-> target, failed |-> fail]

\* a parallel iterator that gives up at the first file whose handling failed
RECURSIVE process_realtimes_until_failure(_, _, _, _)
process_realtimes_until_failure(files, i, failing, dirs) ==
    IF i > Len(files) THEN dirs
    ELSE IF files[i] \in failing
    THEN LET m == move_file_to_dir(files[i], dirs.rt_dir, dirs.failed)
         IN  [dirs EXCEPT !.rt_dir = m.from, !.failed = m.to]
    ELSE LET m == move_file_to_dir(files[i], dirs.rt_dir, dirs.imported)
         IN  process_realtimes_until_failure(files, i + 1, failing,
                 [dirs EXCEPT !.rt_dir = m.from, !.imported = m.to])

\* process_realtime for every file of a group: a file whose handling failed
\* goes to fail_dir, the others go to target_dir
RECURSIVE process_realtimes(_, _, _, _)
process_realtimes(files, i, failing, dirs) ==
    IF i > Len(files) THEN dirs
    ELSE LET f == files[i]
             m == IF f \in failing
                  THEN move_file_to_dir(f, dirs.rt_dir, dirs.failed)
                  ELSE move_file_to_dir(f, dirs.rt_dir, dirs.imported)
             after == IF f \in failing
                      THEN [dirs EXCEPT !.rt_dir = m.from, !.failed = m.to]
                      ELSE [dirs EXCEPT !.rt_dir = m.from, !.imported = m.to]
         IN  process_realtimes(files, i + 1, failing, after)

\* a group whose schedule cannot be parsed and whose files are quarantined with it
process_schedule_and_quarantine(schedule, files, outcome, failing, dirs) ==
    IF schedule \notin dirs.schedule_dir \/ outcome = "parse_fail"
    THEN LET m == move_file_to_dir(schedule, dirs.schedule_dir, dirs.failed) IN
         [ok |-> FALSE, parsed |-> FALSE, handled |-> Range(files),
          dirs |-> process_realtimes(files, 1, Range(files),
                       [dirs EXCEPT !.schedule_dir = m.from, !.failed = m.to])]
    ELSE IF outcome = "conn_fail"
    THEN [ok |-> FALSE, parsed |-> TRUE, handled |-> {}, dirs |-> dirs]
    ELSE [ok |-> TRUE, parsed |-> TRUE, handled |-> Range(files),
          dirs |-> process_realtimes(files, 1, failing, dirs)]

\* Importer::process_schedule_and_realtimes, seen from the sweep: the schedule
\* is parsed (a schedule that cannot be parsed is moved to fail_dir, and the move
\* fails when the file is gone), the importer is constructed, and every file of
\* the group is handled and moved; handled are the files given to process_realtime
process_schedule_and_realtimes(schedule, files, outcome, failing, dirs) ==
    IF schedule \notin dirs.schedule_dir \/ outcome = "parse_fail"
    THEN LET m == move_file_to_dir(schedule, dirs.schedule_dir, dirs.failed) IN
         [ok |-> FALSE, parsed |-> FALSE, handled |-> {},
          dirs |-> [dirs EXCEPT !.schedule_dir = m.from, !.failed = m.to]]
    ELSE IF outcome = "conn_fail"
    THEN [ok |-> FALSE, parsed |-> TRUE, handled |-> {}, dirs |-> dirs]
    ELSE [ok |-> TRUE, parsed |-> TRUE, handled |-> Range(files),
          dirs |-> process_realtimes(files, 1, failing, dirs)]

\* date_from_filename of every file name of the catalog
file_dates == [n \in ScheduleNames \cup RtNames |-> date_from_filename(n)]

\* the inner loop of process_all_files: the schedules, newest first, up to the
\* first whose date is before rt_date; a schedule without a valid date is moved
\* to fail_dir on the way, and a failed move ends the sweep
RECURSIVE find_schedule(_, _, _, _)
find_schedule(schedule_filenames, j, rt_date, dirs) ==
    IF j > Len(schedule_filenames) THEN [kind |-> "none", schedule |-> << >>, dirs |-> dirs]
    ELSE LET schedule_filename == schedule_filenames[j]
             schedule_date == file_dates[schedule_filename]
         IN  IF ~schedule_date.ok
             THEN LET m == move_file_to_dir(schedule_filename, dirs.schedule_dir, dirs.failed)
                  IN  IF ~m.ok THEN [kind |-> "err", schedule |-> << >>, dirs |-> dirs]
                      ELSE find_schedule(schedule_filenames, j + 1, rt_date,
                               [dirs EXCEPT !.schedule_dir = m.from, !.failed = m.to])
             ELSE IF DateLess(schedule_date.date, rt_date)
             THEN [kind |-> "found", schedule |-> schedule_filename, dirs |-> dirs]
             ELSE find_schedule(schedule_filenames, j + 1, rt_date, dirs)

\* the group collected so far is handed to process_schedule_and_realtimes; an
\* error it returns is only logged
process_collected(sw, dirs, outcome, failing) ==
    IF sw.realtime_files_for_current_schedule = << >>
    THEN [sweep |-> sw, dirs |-> dirs]
    ELSE LET g == process_schedule_and_realtimes(sw.current_schedule_file,
                      sw.realtime_files_for_current_schedule, outcome, failing, dirs)
         IN  [sweep |-> [sw EXCEPT !.groups = Append(@,
                            [schedule |-> sw.current_schedule_file,
                             files |-> sw.realtime_files_for_current_schedule,
                             ok |-> g.ok, parsed |-> g.parsed, handled |-> g.handled,
                             failing |-> failing])],
              dirs |-> g.dirs]

\* process_all_files returns an error
bailed(sw, dirs) == [sweep |-> [sw EXCEPT !.pc = "done", !.result = "err"], dirs |-> dirs]

\* a loop that quarantines the realtime files it skips for being too old
pair_realtime_or_quarantine(sw, dirs, outcome, failing) ==
    LET rt_filename == sw.rt_filenames[sw.next]
        rt_date == file_dates[rt_filename]
        continue == [sw EXCEPT !.next = @ + 1]
    IN
    IF ~rt_date.ok
    THEN LET m == move_file_to_dir(rt_filename, dirs.rt_dir, dirs.failed) IN
         IF ~m.ok THEN bailed(sw, dirs)
         ELSE [sweep |-> continue,
               dirs |-> [dirs EXCEPT !.rt_dir = m.from, !.failed = m.to]]
    ELSE IF ~DateLess(sw.oldest_schedule_date, rt_date.date)
    THEN LET m == move_file_to_dir(rt_filename, dirs.rt_dir, dirs.failed) IN
         [sweep |-> [continue EXCEPT !.skipped = @ \cup {rt_filename}],
          dirs |-> [dirs EXCEPT !.rt_dir = m.from, !.failed = m.to]]
    ELSE LET found == find_schedule(sw.schedule_filenames, 1, rt_date.date, dirs) IN
         IF found.kind = "err" THEN bailed(sw, found.dirs)
         ELSE IF found.kind = "none" THEN [sweep |-> continue, dirs |-> found.dirs]
         ELSE LET changed == found.schedule # sw.current_schedule_file
                  before == IF changed
                            THEN process_collected(continue, found.dirs, outcome, failing)
                            ELSE [sweep |-> continue, dirs |-> found.dirs]
                  collected == IF changed THEN << >>
                               ELSE sw.realtime_files_for_current_schedule
              IN  [sweep |-> [before.sweep EXCEPT
                                !.current_schedule_file = found.schedule,
                                !.realtime_files_for_current_schedule =
                                    Append(collected, rt_filename),
                                !.pairs = @ \cup {<<rt_filename, found.schedule>>}],
                   dirs |-> before.dirs]

\* one round of the outer loop of process_all_files, for rt_filenames[next]
pair_realtime(sw, dirs, outcome, failing) ==
    LET rt_filename == sw.rt_filenames[sw.next]
        rt_date == file_dates[rt_filename]
        continue == [sw EXCEPT !.next = @ + 1]
    IN
    IF ~rt_date.ok
    THEN LET m == move_file_to_dir(rt_filename, dirs.rt_dir, dirs.failed) IN
         IF ~m.ok THEN bailed(sw, dirs)
         ELSE [sweep |-> continue,
               dirs |-> [dirs EXCEPT !.rt_dir = m.from, !.failed = m.to]]
    ELSE IF ~DateLess(sw.oldest_schedule_date, rt_date.date)
    THEN [sweep |-> [continue EXCEPT !.skipped = @ \cup {rt_filename}], dirs |-> dirs]
    ELSE LET found == find_schedule(sw.schedule_filenames, 1, rt_date.date, dirs) IN
         IF found.kind = "err" THEN bailed(sw, found.dirs)
         ELSE IF found.kind = "none" THEN [sweep |-> continue, dirs |-> found.dirs]
         ELSE LET changed == found.schedule # sw.current_schedule_file
                  before == IF changed
                            THEN process_collected(continue, found.dirs, outcome, failing)
                            ELSE [sweep |-> continue, dirs |-> found.dirs]
                  collected == IF changed THEN << >>
                               ELSE sw.realtime_files_for_current_schedule
              IN  [sweep |-> [before.sweep EXCEPT
                                !.current_schedule_file = found.schedule,
                                !.realtime_files_for_current_schedule =
                                    Append(collected, rt_filename),
                                !.pairs = @ \cup {<<rt_filename, found.schedule>>}],
                   dirs |-> before.dirs]

\* the directories after a step
SetDirs(dirs) ==
    /\ rt_dir' = dirs.rt_dir
    /\ schedule_dir' = dirs.schedule_dir
    /\ imported' = dirs.imported
    /\ failed' = dirs.failed

GroupOutcomes == {"ok", "parse_fail", "conn_fail"}

\* the step processed a group whose importer got no database connection
ConnFailed(before, after) ==
    /\ Len(after.groups) > Len(before.groups)
    /\ after.groups[Len(after.groups)].parsed
    /\ ~after.groups[Len(after.groups)].ok

\* a connection may fail while the run has failures left
ConnFault(before, after) ==
    /\ ConnFailed(before, after) => faults < MaxFaults
    /\ faults' = IF ConnFailed(before, after) THEN faults + 1 ELSE faults

\* process_all_files up to its loop: both directories are listed, an empty
\* directory or an undated first schedule ends the sweep with an error
StartSweep ==
    /\ sweep.pc = "idle"
    /\ \E schedule_filenames \in {read_dir_simple(schedule_dir)},
          rt_filenames \in {read_dir_simple(rt_dir)} :
         \E listed \in {[sweep EXCEPT !.schedule_filenames = schedule_filenames,
                                      !.rt_filenames = rt_filenames]} :
           IF rt_filenames = << >> \/ schedule_filenames = << >>
           THEN sweep' = [listed EXCEPT !.pc = "done", !.result = "err"]
           ELSE \E oldest_schedule_date \in {date_from_filename(schedule_filenames[1])} :
                  IF ~oldest_schedule_date.ok
                  THEN sweep' = [listed EXCEPT !.pc = "done", !.result = "err"]
                  ELSE sweep' = [listed EXCEPT !.pc = "loop", !.next = 1,
                                   !.oldest_schedule_date = oldest_schedule_date.date,
                                   !.schedule_filenames = reverse(schedule_filenames)]
    /\ UNCHANGED <<slotVars, corrVars, runVars, dbVars, rt_dir, schedule_dir, imported, failed,
                   group, task, committed, last_tx, faults>>

\* the loop of process_all_files at one realtime file
PairRealtime(outcome, failing) ==
    /\ sweep.pc = "loop"
    /\ sweep.next <= Len(sweep.rt_filenames)
    /\ failing \subseteq Range(sweep.realtime_files_for_current_schedule)
    /\ \E step \in {pair_realtime(sweep, Dirs(rt_dir, schedule_dir, imported, failed),
                                   outcome, failing)} :
           /\ sweep' = step.sweep
           /\ SetDirs(step.dirs)
           /\ ConnFault(sweep, step.sweep)
    /\ UNCHANGED <<slotVars, corrVars, runVars, dbVars, group, task, committed, last_tx>>

\* process_all_files after its loop: the last collected group is processed
FinishSweep(outcome, failing) ==
    /\ sweep.pc = "loop"
    /\ sweep.next > Len(sweep.rt_filenames)
    /\ failing \subseteq Range(sweep.realtime_files_for_current_schedule)
    /\ \E step \in {process_collected(sweep, Dirs(rt_dir, schedule_dir, imported, failed),
                                       outcome, failing)} :
           /\ sweep' = [step.sweep EXCEPT !.pc = "done", !.result = "ok"]
           /\ SetDirs(step.dirs)
           /\ ConnFault(sweep, step.sweep)
    /\ UNCHANGED <<slotVars, corrVars, runVars, dbVars, group, task, committed, last_tx>>

NextSweep ==
    \/ StartSweep
    \/ \E outcome \in GroupOutcomes, failing \in SUBSET RtNames :
         PairRealtime(outcome, failing)
    \/ \E outcome \in GroupOutcomes, failing \in SUBSET RtNames :
         FinishSweep(outcome, failing)

SpecSweep == InitSweep /\ [][NextSweep]_vars

\* the date in a file name that has one
DateOf(filename) == date_from_filename(filename).date

\* the listed schedules whose date is before the date of a realtime file
OlderSchedules(rt_filename) ==
    {s \in Range(sweep.schedule_filenames) :
        /\ date_from_filename(s).ok
        /\ DateLess(DateOf(s), DateOf(rt_filename))}

\* C3: in a sweep, every realtime file that is not skipped is paired with the
\* schedule whose filename date is the greatest among all schedule dates
\* strictly less than the realtime file's date; a schedule with the same date
\* or a newer one is never chosen; for every set of file names.
C3_NewestOlderSchedule ==
    \A pair \in sweep.pairs :
      /\ pair[2] \in OlderSchedules(pair[1])
      /\ \A s \in OlderSchedules(pair[1]) : ~DateLess(DateOf(pair[2]), DateOf(s))

\* the groups of the sweep that reached their workers
Worked(g) == g.parsed /\ g.ok

\* every file of group g has been handled and moved, the failing ones to failed/
GroupMoved(g) ==
    \A f \in Range(g.files) :
      /\ f \notin rt_dir
      /\ IF f \in g.failing THEN f \in failed ELSE f \in imported

\* every file the sweep has paired so far is collected or in a processed group
AllPairsProcessed ==
    \A pair \in sweep.pairs :
      \E i \in 1..Len(sweep.groups) :
        /\ sweep.groups[i].schedule = pair[2]
        /\ pair[1] \in Range(sweep.groups[i].files)

MaxSweeps == 2

\* const TIME_BETWEEN_DIR_SCANS, in seconds
TIME_BETWEEN_DIR_SCANS == 60

\* a counter that stops at MaxSweeps
Counted(n) == IF n < MaxSweeps THEN n + 1 ELSE n

\* process_all_files is not running
SweepOff == [SweepIdle EXCEPT !.pc = "off"]

\* the files a run may find in rt/ and in schedule/
RunRtNames == {R_OCT01, R_OCT20, R_NOV15, R_X}
RunScheduleNames == {S_OCT01, S_NOV01, S_NOTES}

\* Importer::run for "automatic" and "batch": run_as_non_manual is entered
InitRun ==
    /\ SlotsIdle
    /\ call = [made |-> FALSE]
    /\ ret = [made |-> FALSE]
    /\ realtime = {}
    /\ params_vec = << >>
    /\ group = [pc |-> "none", files |-> {}, result |-> "none"]
    /\ task = [f \in RtFiles |-> Untouched]
    /\ committed = {}
    /\ last_tx = NoTx
    /\ faults = 0
    /\ rt_dir \in SUBSET RunRtNames
    /\ schedule_dir \in SUBSET RunScheduleNames
    /\ imported = {}
    /\ failed = {}
    /\ sweep = SweepOff
    /\ \E mode \in {"automatic", "batch"}, pingurl \in BOOLEAN :
         run = [RunIdle EXCEPT !.mode = mode, !.pingurl = pingurl, !.pc = "create"]

\* run_as_non_manual: builder.create(target_dir)?; builder.create(fail_dir)?
CreateDirs(outcome) ==
    /\ run.pc = "create"
    /\ run' = IF outcome = "ok"
              THEN [run EXCEPT !.created = TRUE, !.pc = "call"]
              ELSE [run EXCEPT !.pc = "returned", !.result = "err"]
    /\ UNCHANGED <<slotVars, corrVars, dbVars, mainVars, sweepVars>>

\* run_as_non_manual calls process_all_files
ProcessAllFiles ==
    /\ run.pc = "call"
    /\ run' = [run EXCEPT !.pc = "sweep", !.sweeps = Counted(@)]
    /\ sweep' = SweepIdle
    /\ UNCHANGED <<slotVars, corrVars, dbVars, mainVars>>

\* a loop that gives up when process_all_files returns an error
SweepReturnedOrGiveUp ==
    /\ run.pc = "sweep"
    /\ sweep.pc = "done"
    /\ run' = IF sweep.result = "err"
              THEN [run EXCEPT !.pc = "returned", !.result = "err",
                               !.sweep_result = sweep.result]
              ELSE IF run.mode = "automatic"
              THEN [run EXCEPT !.pc = "ping", !.sweep_result = sweep.result]
              ELSE [run EXCEPT !.pc = "returned", !.result = "ok",
                               !.sweep_result = sweep.result]
    /\ sweep' = SweepOff
    /\ UNCHANGED <<slotVars, corrVars, dbVars, mainVars>>

\* a batch mode that goes on to the heartbeat like automatic mode
SweepReturnedAndLoop ==
    /\ run.pc = "sweep"
    /\ sweep.pc = "done"
    /\ run' = [run EXCEPT !.pc = "ping", !.sweep_result = sweep.result]
    /\ sweep' = SweepOff
    /\ UNCHANGED <<slotVars, corrVars, dbVars, mainVars>>

\* process_all_files has returned Ok or Err: automatic mode goes on to the
\* heartbeat, batch mode returns Ok(())
SweepReturned ==
    /\ run.pc = "sweep"
    /\ sweep.pc = "done"
    /\ run' = IF run.mode = "automatic"
              THEN [run EXCEPT !.pc = "ping", !.sweep_result = sweep.result]
              ELSE [run EXCEPT !.pc = "returned", !.result = "ok",
                               !.sweep_result = sweep.result]
    /\ sweep' = SweepOff
    /\ UNCHANGED <<slotVars, corrVars, dbVars, mainVars>>

\* Importer::ping_url: one GET when a URL is configured; its error is logged
PingUrl(outcome) ==
    /\ run.pc = "ping"
    /\ run' = IF run.pingurl
              THEN [run EXCEPT !.pings = Counted(@), !.ping_result = outcome,
                               !.pc = "sleep"]
              ELSE [run EXCEPT !.pc = "sleep"]
    /\ UNCHANGED <<slotVars, corrVars, dbVars, mainVars, sweepVars>>

\* thread::sleep(TIME_BETWEEN_DIR_SCANS), then the loop starts over
Sleep ==
    /\ run.pc = "sleep"
    /\ run' = [run EXCEPT !.sleeps = Counted(@), !.slept = TIME_BETWEEN_DIR_SCANS,
                          !.pc = "call"]
    /\ UNCHANGED <<slotVars, corrVars, dbVars, mainVars, sweepVars>>

NextRun ==
    \/ \E outcome \in {"ok", "fail"} : CreateDirs(outcome)
    \/ ProcessAllFiles
    \/ StartSweep
    \/ \E outcome \in GroupOutcomes, failing \in SUBSET RtNames :
         PairRealtime(outcome, failing)
    \/ \E outcome \in GroupOutcomes, failing \in SUBSET RtNames :
         FinishSweep(outcome, failing)
    \/ SweepReturned
    \/ \E outcome \in {"ok", "err"} : PingUrl(outcome)
    \/ Sleep

\* the scheduler lets the run take its next step
SpecRun == InitRun /\ [][NextRun]_vars /\ WF_vars(NextRun)

\* automatic mode is about to list the directories
AtSweepStart == run.mode = "automatic" /\ run.pc = "sweep" /\ sweep.pc = "idle"

\* C12: automatic mode imports all files which are present: every realtime
\* file that is in rt/ at the start of some sweep eventually leaves rt/, given
\* that sweeps keep being executed and at least one schedule file exists.
C12_EveryFileLeaves ==
    \A f \in RunRtNames :
      [](((AtSweepStart /\ f \in rt_dir) /\ schedule_dir # {}) => <>(f \notin rt_dir))

\* automatic mode has entered its loop
InLoop == run.mode = "automatic" /\ run.created

\* one step of the loop: sweep, then the heartbeat (one GET when a URL is
\* configured, none otherwise), then the sleep, then the next sweep
LoopOrder ==
    (InLoop /\ run'.pc # run.pc) =>
        /\ run.pc = "call" => run'.pc = "sweep"
        /\ run.pc = "sweep" => run'.pc = "ping"
        /\ run.pc = "ping" =>
             /\ run'.pc = "sleep"
             /\ run'.pings = IF run.pingurl THEN Counted(run.pings) ELSE run.pings
        /\ run.pc = "sleep" =>
             /\ run'.pc = "call"
             /\ run'.slept = TIME_BETWEEN_DIR_SCANS
             /\ run'.sleeps = Counted(run.sleeps)

BatchDone ==
    (run.mode = "batch" /\ run.pc = "returned" /\ run.created) =>
        /\ run.sweeps = 1
        /\ run.result = "ok"
        /\ run.sweep_result \in {"ok", "err"}

\* C14: batch mode creates imported/ and failed/, performs exactly one sweep
\* and terminates; it returns Ok whether the sweep succeeded or returned an
\* error, and issues no heartbeat and no sleep.
C14_BatchOnce ==
    /\ [](BatchDone)
    /\ [](run.mode = "batch" =>
            /\ run.pings = 0 /\ run.sleeps = 0 /\ run.sweeps <= 1
            /\ run.sweeps > 0 => run.created)
    /\ [](run.mode = "batch" => <>(run.pc = "returned"))

\* batch mode has returned Ok after a sweep that returned an error
C14_Witness ==
    /\ run.mode = "batch" /\ run.pc = "returned" /\ run.result = "ok"
    /\ run.sweeps = 1 /\ run.sweep_result = "err"

\* the files listed by the sweep whose name has no valid date
Undated(sw) ==
    {f \in Range(sw.rt_filenames) \cup Range(sw.schedule_filenames) : ~file_dates[f].ok}

\* C15: during a sweep every file of rt/ or schedule/ whose name contains no
\* parseable date is moved to failed/ and is not used for pairing, the
\* alphabetically first schedule file included.
C15_UndatedQuarantined ==
    (sweep.pc = "done" /\ sweep.rt_filenames # << >> /\ sweep.schedule_filenames # << >>) =>
        \A f \in Undated(sweep) :
            /\ f \in failed
            /\ \A p \in sweep.pairs : p[1] # f /\ p[2] # f

\* group g was aborted at its schedule: the schedule is in failed/, no file of
\* the group was given to process_realtime, and all of them are still in rt/
Aborted(g) ==
    /\ g.schedule \in failed /\ g.schedule \notin schedule_dir
    /\ ~g.ok
    /\ g.handled = {}
    /\ Range(g.files) \subseteq rt_dir
    /\ Range(g.files) \cap (imported \cup failed) = {}

\* C16: when the schedule file of a group cannot be parsed, the schedule file
\* is moved to failed/, the group is aborted without decoding or moving any of
\* its realtime files (they all remain in rt/), and the sweep continues with
\* the following realtime files.
C16_ScheduleParseFailure ==
    /\ \A i \in 1..Len(sweep.groups) : ~sweep.groups[i].parsed => Aborted(sweep.groups[i])
    /\ (sweep.pc = "done" /\ sweep.result = "ok") => AllPairsProcessed

\* a finished sweep with an aborted group of two files and a later group that
\* was imported
C16_Witness ==
    /\ sweep.pc = "done" /\ sweep.result = "ok"
    /\ \E i, j \in 1..Len(sweep.groups) :
         /\ i < j
         /\ ~sweep.groups[i].parsed /\ Len(sweep.groups[i].files) > 1
         /\ Worked(sweep.groups[j])
         /\ Range(sweep.groups[j].files) \cap imported # {}

(***************************************************************************)
(* One group of realtime files, by what the files hold                     *)
(* (PerScheduleImporter::handle_realtime_file, process_message)            *)
(***************************************************************************)

\* str::ends_with
ends_with(path, suffix) ==
    /\ Len(suffix) <= Len(path)
    /\ SubSeq(path, Len(path) - Len(suffix) + 1, Len(path)) = suffix

\* the two realtime files of the group
PLAIN_FILE == DatedName(<< >>, 2023, 11, 15, PB)
ZIPPED_FILE == DatedName(<< >>, 2023, 11, 16, ZIP)
GroupFiles == {PLAIN_FILE, ZIPPED_FILE}

\* trip updates: a complete one for a trip of the schedule, then one for each
\* way the descriptor of a trip can be unusable
GoodTrip ==
    TripUpdate(Some("R1"), Some("T1"), Some("20231114"), Some("08:00:00"),
               << StopTimeUpdate(Some("S2"), Some(2), StopTimeEvent(Some(10)),
                                 StopTimeEvent(Some(20))) >>)
BadTrips ==
    { [GoodTrip EXCEPT !.trip.route_id = None],
      [GoodTrip EXCEPT !.trip.trip_id = None],
      [GoodTrip EXCEPT !.trip.start_date = None],
      [GoodTrip EXCEPT !.trip.start_time = None],
      [GoodTrip EXCEPT !.trip.trip_id = Some("TX")] }

\* the entities of a message: at most MaxEntities trip updates
MaxEntities == 2
Messages ==
    {<< >>, <<FeedEntity(Some(GoodTrip))>>, <<FeedEntity(None), FeedEntity(Some(GoodTrip))>>}
      \cup {<<FeedEntity(Some(b)), FeedEntity(Some(GoodTrip))>> : b \in BadTrips}
      \cup {<<FeedEntity(Some(GoodTrip)), FeedEntity(Some(b))>> : b \in BadTrips}

\* what a file holds: archive says whether its bytes are a zip archive with an
\* entry ("ok"), a zip archive without entries ("empty") or no zip archive at all
\* ("none"); decodable says whether the bytes read are a FeedMessage
Content(archive, decodable, header_timestamp, entity) ==
    [archive |-> archive, decodable |-> decodable, timestamp |-> header_timestamp,
     entity |-> entity]

Contents ==
    {Content(a, FALSE, None, << >>) : a \in {"none", "empty", "ok"}}
      \cup {Content(a, TRUE, None, << >>) : a \in {"none", "ok"}}
      \cup {Content(a, TRUE, Some(1700000000), m) : a \in {"none", "ok"}, m \in Messages}

\* a file the parallel iterator has not yet given to a worker
Queued(content) ==
    [pc |-> "queued", ei |-> 0, res |-> "none", rows |-> {}, txfail |-> FALSE,
     content |-> content]

\* handle_realtime_file up to process_message: the bytes are read through
\* ZipArchive when the path ends with .zip (both unwraps panic), then decoded
read_message(path, content) ==
    IF ends_with(path, ZIP) /\ content.archive = "none" THEN "Panic"
    ELSE IF ends_with(path, ZIP) /\ content.archive = "empty" THEN "Panic"
    ELSE IF ~ends_with(path, ZIP) /\ content.archive # "none" THEN "Err"
    ELSE IF ~content.decodable THEN "Err"
    ELSE IF IsNone(content.timestamp) THEN "Err"
    ELSE "Ok"

\* a process_message that returns the error of a trip update
process_message_or_bail(t, flushed) ==
    LET entity == t.content.entity[t.ei]
        pre == IF IsNone(entity.trip_update) THEN "None"
               ELSE trip_preamble(entity.trip_update.val, Schedule).kind
    IN  IF pre = "Panic" THEN [t EXCEPT !.pc = "panicked", !.res = "panic"]
        ELSE IF pre = "Err" THEN [t EXCEPT !.pc = "move", !.res = "err"]
        ELSE LET added == IF pre = "Ok" THEN [t EXCEPT !.rows = @ \cup {t.ei}] ELSE t
             IN  IF ~flushed
                 THEN [added EXCEPT !.pc = "move", !.res = "err", !.txfail = TRUE]
                 ELSE IF t.ei < Len(t.content.entity)
                 THEN [added EXCEPT !.ei = @ + 1]
                 ELSE [added EXCEPT !.pc = "move", !.res = "ok"]

\* one round of the loop of process_message: the error of process_trip_update
\* is logged, a trip update that is processed hands its parameter sets to the
\* writer (rows), then write_to_database()? flushes them
process_message(t, flushed) ==
    LET entity == t.content.entity[t.ei]
        pre == IF IsNone(entity.trip_update) THEN "None"
               ELSE trip_preamble(entity.trip_update.val, Schedule).kind
    IN  IF pre = "Panic" THEN [t EXCEPT !.pc = "panicked", !.res = "panic"]
        ELSE LET added == IF pre = "Ok" THEN [t EXCEPT !.rows = @ \cup {t.ei}] ELSE t
             IN  IF ~flushed
                 THEN [added EXCEPT !.pc = "move", !.res = "err", !.txfail = TRUE]
                 ELSE IF t.ei < Len(t.content.entity)
                 THEN [added EXCEPT !.ei = @ + 1]
                 ELSE [added EXCEPT !.pc = "move", !.res = "ok"]

\* process_schedule_and_realtimes has parsed the schedule and built the
\* importer; the parallel iterator is about to start on the group's files
InitFile ==
    /\ SlotsIdle
    /\ call = [made |-> FALSE]
    /\ ret = [made |-> FALSE]
    /\ realtime = {}
    /\ params_vec = << >>
    /\ committed = {}
    /\ last_tx = NoTx
    /\ faults = 0
    /\ sweep = SweepIdle
    /\ run = RunIdle
    /\ rt_dir = GroupFiles
    /\ schedule_dir = {S_NOV01}
    /\ imported = {}
    /\ failed = {}
    /\ group = [pc |-> "running", files |-> GroupFiles, result |-> "none"]
    /\ \E plain, zipped \in Contents :
         task = (PLAIN_FILE :> Queued(plain)) @@ (ZIPPED_FILE :> Queued(zipped))

\* a worker starts on file f: handle_realtime_file up to process_message
HandleFile(f) ==
    /\ group.pc = "running"
    /\ task[f].pc = "queued"
    /\ \E r \in {read_message(f, task[f].content)} :
         task' = [task EXCEPT ![f] =
            IF r = "Panic" THEN [@ EXCEPT !.pc = "panicked", !.res = "panic"]
            ELSE IF r = "Err" THEN [@ EXCEPT !.pc = "move", !.res = "err"]
            ELSE IF Len(@.content.entity) = 0 THEN [@ EXCEPT !.pc = "move", !.res = "ok"]
            ELSE [@ EXCEPT !.pc = "entity", !.ei = 1]]
    /\ UNCHANGED <<slotVars, corrVars, sweepVars, runVars, dbVars, rt_dir, schedule_dir, imported,
                   failed, group, committed, last_tx, faults>>

\* the worker of file f processes the next entity of the message
ProcessMessage(f, flushed) ==
    /\ group.pc = "running"
    /\ task[f].pc = "entity"
    /\ ~flushed => faults < MaxFaults
    /\ faults' = IF flushed THEN faults ELSE faults + 1
    /\ task' = [task EXCEPT ![f] = process_message(@, flushed)]
    /\ UNCHANGED <<slotVars, corrVars, sweepVars, runVars, dbVars, rt_dir, schedule_dir, imported,
                   failed, group, committed, last_tx>>

NextFile ==
    \/ \E f \in GroupFiles : HandleFile(f)
    \/ \E f \in GroupFiles, flushed \in BOOLEAN : ProcessMessage(f, flushed)
    \/ \E f \in GroupFiles : ProcessRealtime(f)
    \/ EndGroup

SpecFile == InitFile /\ [][NextFile]_vars

\* the file cannot be decoded, or its feed header has no timestamp
Undecodable(path, content) ==
    \/ ends_with(path, ZIP) /\ content.archive # "ok"
    \/ ~ends_with(path, ZIP) /\ content.archive # "none"
    \/ ~content.decodable
    \/ IsNone(content.timestamp)

\* C17: a realtime file that cannot be decoded (a corrupt .zip wrapper
\* included), or whose feed header has no timestamp, makes handle_realtime_file
\* return an error before any parameter set is added to the writer; the file is
\* then moved to failed/ and the other files of the group are still processed.
C17_UndecodableQuarantined ==
    \A f \in GroupFiles :
      (Undecodable(f, task[f].content) /\ task[f].pc # "queued") =>
          /\ task[f].res = "err"
          /\ task[f].rows = {}
          /\ task[f].pc = "moved" => f \in failed

\* entity i of the file of task t is a trip update that lacks route_id, trip_id,
\* start_date or start_time, or whose trip is not in the schedule
BadEntity(t, i) ==
    /\ IsSome(t.content.entity[i].trip_update)
    /\ t.content.entity[i].trip_update.val \in BadTrips

\* C18: a trip update that lacks route_id, trip_id, start_date or start_time,
\* or whose trip_id is not found in the schedule, produces no row; every
\* remaining entity of the same file is still processed, and the file is still
\* reported as a success.
C18_BadTripUpdateSkipped ==
    \A f \in GroupFiles :
      LET t == task[f] IN
      /\ \A i \in 1..Len(t.content.entity) : BadEntity(t, i) => i \notin t.rows
      /\ (t.pc \in {"move", "moved"} /\ ~Undecodable(f, t.content) /\ ~t.txfail) =>
            /\ t.res = "ok"
            /\ \A i \in 1..Len(t.content.entity) :
                 (IsSome(t.content.entity[i].trip_update) /\ ~BadEntity(t, i))
                     => i \in t.rows
            /\ t.pc = "moved" => f \in imported

\* a file whose first trip update is unusable and whose second one produced a
\* row has been moved to imported/
C18_Witness ==
    \E f \in GroupFiles :
      /\ task[f].pc = "moved" /\ f \in imported
      /\ Len(task[f].content.entity) = 2
      /\ BadEntity(task[f], 1)
      /\ task[f].rows = {2}

\* C19: whenever a write transaction fails while a realtime file is being
\* processed, whether the flush was triggered by batch overflow while adding a
\* parameter set or by the explicit flush, handle_realtime_file returns an
\* error for that file and the file is moved to failed/, never to imported/.
C19_WriteFailureQuarantines ==
    \A f \in RtFiles :
      task[f].txfail =>
          /\ f \notin imported
          /\ task[f].pc \in {"move", "moved"} => task[f].res = "err"
          /\ task[f].pc = "moved" => f \in failed

(***************************************************************************)
(* The curve builder (analyser/default_curves.rs)                          *)
(***************************************************************************)

\* f32 values are kept as exact fractions num/den with den > 0; 1/0 stands for
\* infinity and 0/0 for NaN
RECURSIVE gcd(_, _)
gcd(a, b) ==
    IF b = 0 THEN a
    ELSE CHOOSE g \in {gcd(y, x % y) : x \in {a}, y \in {b}} : TRUE

abs(n) == IF n < 0 THEN -n ELSE n

\* the one element of a set {e}: e, evaluated once where it is used many times
The(S) == CHOOSE v \in S : TRUE

Frac(n, d) ==
    The({IF y = 0 THEN [num |-> IF x = 0 THEN 0 ELSE IF x > 0 THEN 1 ELSE -1, den |-> 0]
         ELSE The({[num |-> sign * (x \div g), den |-> sign * (y \div g)] :
                     g \in {gcd(abs(x), abs(y))}, sign \in {IF y < 0 THEN -1 ELSE 1}}) :
         x \in {n}, y \in {d}})

Whole(n) == [num |-> n, den |-> 1]
FracAdd(a, b) == The({Frac(x.num * y.den + y.num * x.den, x.den * y.den) : x \in {a}, y \in {b}})
FracSub(a, b) == The({Frac(x.num * y.den - y.num * x.den, x.den * y.den) : x \in {a}, y \in {b}})
FracDiv(a, b) == The({Frac(x.num * y.den, x.den * y.num) : x \in {a}, y \in {b}})

\* the delays a sample can have, and how often each may occur in an input
SampleValues == {-60, 0, 60, 120}
MaxCount == 3

\* a vector with count[v] samples of each value v, largest values first
RECURSIVE samples(_, _)
samples(count, left) ==
    IF left = {} THEN << >>
    ELSE LET v == CHOOSE m \in left : \A o \in left : o <= m
         IN  [k \in 1..count[v] |-> v] \o samples(count, left \ {v})

\* own_values.sort_by(|a, b| a.partial_cmp(b).unwrap()): a stable sort, every
\* value goes to the place given by the number of values that come before it
sort_by(values) ==
    LET place == [m \in 1..Len(values) |->
                    1 + Cardinality({o \in 1..Len(values) :
                          values[o] < values[m] \/ (values[o] = values[m] /\ o < m)})]
    IN  [p \in 1..Len(values) |-> values[CHOOSE m \in 1..Len(values) : place[m] = p]]

\* DefaultCurveCreator::get_weight
get_weight(delay, focus, min_delay, max_delay) ==
    IF delay < min_delay \/ delay > max_delay THEN Whole(0)
    ELSE IF IsSome(focus)
    THEN IF delay = focus.val THEN Whole(1)
         ELSE IF delay < focus.val
         THEN Frac(delay - min_delay, focus.val - min_delay)
         ELSE FracSub(Whole(1), Frac(delay - focus.val, max_delay - focus.val))
    ELSE Whole(1)

\* pairs.iter().map(|(_v, w)| *w).sum()
\* the weights of pairs[lo..hi] added up, halving the range
RECURSIVE sum_between(_, _, _)
sum_between(pairs, lo, hi) ==
    IF lo > hi THEN Whole(0)
    ELSE IF lo = hi THEN pairs[lo].w
    ELSE FracAdd(sum_between(pairs, lo, (lo + hi) \div 2),
                 sum_between(pairs, (lo + hi) \div 2 + 1, hi))

sum(pairs, k) == sum_between(pairs, 1, k)

Tup(x, y) == [x |-> x, y |-> y]

\* the loop of make_curve from pairs[k] on: the running sum of weights i is
\* sum(pairs, k) after pairs[k], and last_x is the x of the last tup pushed
RECURSIVE push_tups(_, _, _, _, _)
push_tups(pairs, k, last_x, sum_of_weights, tups) ==
    IF k > Len(pairs) THEN tups
    ELSE IF pairs[k].x # last_x
    THEN push_tups(pairs, k + 1, pairs[k].x, sum_of_weights,
             Append(tups, Tup(pairs[k].x, FracDiv(sum(pairs, k), sum_of_weights))))
    ELSE push_tups(pairs, k + 1, last_x, sum_of_weights, tups)

\* DefaultCurveCreator::make_curve: None, or the tups of the curve and the sum
\* of the weights
make_curve(values, focus) ==
    LET own_values == sort_by(values)
        min_delay == own_values[1]
        max_delay == own_values[Len(own_values)]
        pairs == [k \in 1..Len(own_values) |->
                    [x |-> own_values[k],
                     w |-> get_weight(own_values[k], focus, min_delay, max_delay)]]
        sum_of_weights == sum(pairs, Len(pairs))
        tups == push_tups(pairs, 1, 0, sum_of_weights, << >>)
    IN  IF Len(tups) < 2 THEN None
        ELSE Some([tups |-> [k \in 1..Len(tups) |->
                               IF k = Len(tups) THEN Tup(tups[k].x, Whole(1))
                               ELSE IF k = 1 THEN Tup(tups[k].x, Whole(0))
                               ELSE tups[k]],
                   sum_of_weights |-> sum_of_weights])

\* make_curve is called with a vector of at least one sample
InitCurve ==
    /\ SlotsIdle
    /\ MainIdle
    /\ realtime = {}
    /\ params_vec = << >>
    /\ ret = [made |-> FALSE]
    /\ \E count \in [SampleValues -> 0..MaxCount], focus \in {None, Some(0), Some(60)} :
         /\ \E v \in SampleValues : count[v] > 0
         /\ call = [made |-> TRUE, values |-> samples(count, SampleValues), focus |-> focus]

\* the call returns
MakeCurve ==
    /\ call.made /\ ~ret.made
    /\ ret' = [made |-> TRUE, curve |-> make_curve(call.values, call.focus)]
    /\ UNCHANGED <<slotVars, dbVars, mainVars, sweepVars, runVars, call>>

NextCurve == MakeCurve

SpecCurve == InitCurve /\ [][NextCurve]_vars

\* the y of the sample the curve has at x
y_at_sample(curve, x) ==
    LET k == CHOOSE m \in 1..Len(curve.tups) : curve.tups[m].x = x IN curve.tups[k].y

\* the samples of the scenario
ScenarioSamples == <<-60, -60, 0, 0, 0, 60, 60, 120>>

\* C20: for the unweighted samples [-60,-60,0,0,0,60,60,120] make_curve yields
\* a curve through (-60, 0) and (120, 1) whose value at x = 0 is 0.625: the
\* cumulative weight of all samples up to and including 0 over the total weight.
C20_CurveScenario ==
    (ret.made /\ sort_by(call.values) = ScenarioSamples /\ IsNone(call.focus)) =>
        /\ IsSome(ret.curve)
        /\ y_at_sample(ret.curve.val, -60) = Whole(0)
        /\ y_at_sample(ret.curve.val, 120) = Whole(1)
        /\ y_at_sample(ret.curve.val, 0) = Frac(5, 8)

\* a < b for fractions with positive denominators
FracLess(a, b) == a.num * b.den < b.num * a.den

\* some x_at_y takes the y of every sample back to the sample's x
RoundTrip(tups) ==
    LET xs == {tups[k].x : k \in 1..Len(tups)}
        ys == {tups[k].y : k \in 1..Len(tups)}
    IN  \E x_at_y \in [ys -> xs] : \A k \in 1..Len(tups) : x_at_y[tups[k].y] = tups[k].x

\* C21: for every curve that make_curve returns (unweighted or focused), the
\* emitted samples have strictly increasing x, nondecreasing y, first y equal
\* to 0 and last y equal to 1, and x_at_y(y_at_x(x)) = x for every sample x.
C21_CurveShape ==
    (ret.made /\ IsSome(ret.curve)) =>
        LET tups == ret.curve.val.tups IN
        /\ \A k \in 1..(Len(tups) - 1) :
             /\ tups[k].x < tups[k + 1].x
             /\ ~FracLess(tups[k + 1].y, tups[k].y)
        /\ \A k \in 1..Len(tups) : tups[k].y.den > 0
        /\ tups[1].y = Whole(0)
        /\ tups[Len(tups)].y = Whole(1)
        /\ RoundTrip(tups)

(***************************************************************************)
(* Markers of a stop pair (generate_curves_for_stop_pair, recurse)         *)
(***************************************************************************)

FracMul(a, b) == The({Frac(x.num * y.num, x.den * y.den) : x \in {a}, y \in {b}})
FracLeq(a, b) == The({x.num * y.den <= y.num * x.den : x \in {a}, y \in {b}})
FracMax(a, b) == The({IF FracLeq(x, y) THEN y ELSE x : x \in {a}, y \in {b}})
FracMin(a, b) == The({IF FracLeq(x, y) THEN x ELSE y : x \in {a}, y \in {b}})

\* IrregularDynamicCurve::y_at_x: linear interpolation between the two samples
\* around x, the first and the last y outside the curve
y_at_x(tups, x) ==
    IF FracLeq(x, Whole(tups[1].x)) THEN tups[1].y
    ELSE IF FracLeq(Whole(tups[Len(tups)].x), x) THEN tups[Len(tups)].y
    ELSE LET k == CHOOSE m \in 1..(Len(tups) - 1) :
                     FracLeq(Whole(tups[m].x), x) /\ FracLess(x, Whole(tups[m + 1].x))
             a == tups[k]
             b == tups[k + 1]
         IN  FracAdd(a.y, FracMul(FracSub(x, Whole(a.x)),
                                  FracDiv(FracSub(b.y, a.y), Whole(b.x - a.x))))

\* IrregularDynamicCurve::x_at_y: the x at which the interpolated curve reaches
\* y, min_x for y <= 0 and max_x for y >= 1
x_at_y(tups, y) ==
    IF FracLeq(y, tups[1].y) THEN Whole(tups[1].x)
    ELSE IF FracLeq(tups[Len(tups)].y, y) THEN Whole(tups[Len(tups)].x)
    ELSE LET k == CHOOSE m \in 1..(Len(tups) - 1) :
                     FracLeq(tups[m].y, y) /\ FracLess(y, tups[m + 1].y)
             a == tups[k]
             b == tups[k + 1]
         IN  FracAdd(Whole(a.x), FracMul(FracSub(y, a.y),
                                         FracDiv(Whole(b.x - a.x), FracSub(b.y, a.y))))

\* a new marker must be 20 seconds away from the existing ones, with 20 data
\* points between them
MARKER_SECONDS == 20
MARKER_POINTS == 20

\* the test of DefaultCurveCreator::recurse: Some(mid_x) when a marker fits
\* between lower and upper, None otherwise
mid_marker(initial_delay_curve, lower, upper, count) ==
    LET min_x_by_delay == FracAdd(lower, Whole(MARKER_SECONDS))
        max_x_by_delay == FracSub(upper, Whole(MARKER_SECONDS))
        lower_y == y_at_x(initial_delay_curve, lower)
        upper_y == y_at_x(initial_delay_curve, upper)
        min_y_by_count == FracAdd(lower_y, Frac(MARKER_POINTS, count))
        max_y_by_count == FracSub(upper_y, Frac(MARKER_POINTS, count))
        min_x_by_count == x_at_y(initial_delay_curve, min_y_by_count)
        max_x_by_count == x_at_y(initial_delay_curve, max_y_by_count)
        min_x == FracMax(min_x_by_delay, min_x_by_count)
        max_x == FracMin(max_x_by_delay, max_x_by_count)
    IN  IF FracLeq(min_x, max_x)
        THEN Some(FracDiv(FracAdd(min_x, max_x), Whole(2)))
        ELSE None

\* DefaultCurveCreator::recurse: the markers pushed between lower and upper
RECURSIVE recurse(_, _, _, _)

\* the branch of recurse that has found mid_x
recurse_around(initial_delay_curve, lower, mid_x, upper, count) ==
    recurse(initial_delay_curve, lower, mid_x, count)
      \o <<mid_x>>
      \o recurse(initial_delay_curve, mid_x, upper, count)

recurse(initial_delay_curve, lower, upper, count) ==
    IF IsSome(mid_marker(initial_delay_curve, lower, upper, count))
    THEN recurse_around(initial_delay_curve, lower, mid_marker(initial_delay_curve, lower, upper, count).val, upper, count)
    ELSE << >>

\* generate_curves_for_stop_pair from the initial curve up to its list of
\* markers: None when the initial delays make no curve
markers_for_stop_pair(initial, count) ==
    IF IsNone(initial) THEN None
    ELSE LET min_x == Whole(initial.val.tups[1].x)
             max_x == Whole(initial.val.tups[Len(initial.val.tups)].x)
         IN  Some(<<min_x, min_x>>
                    \o recurse(initial.val.tups, min_x, max_x, count)
                    \o <<max_x, max_x>>)

\* the initial delays of the joined pairs of a stop pair: delays are multiples
\* of 12, and each occurs not at all, a few times or many times
MarkerValues == {-60, -12, 60, 72}
MarkerCounts == {0, 3, 20, 25}

InitMarkers ==
    /\ SlotsIdle
    /\ MainIdle
    /\ realtime = {}
    /\ params_vec = << >>
    /\ ret = [made |-> FALSE]
    /\ \E count \in [MarkerValues -> MarkerCounts] :
         /\ \E v \in MarkerValues : count[v] > 0
         /\ call = [made |-> TRUE, start_delays |-> samples(count, MarkerValues)]

\* the list of markers is complete
Markers ==
    /\ call.made /\ ~ret.made
    /\ \E initial_delay_curve \in {make_curve(call.start_delays, None)} :
         ret' = [made |-> TRUE,
                 markers |-> markers_for_stop_pair(initial_delay_curve, Len(call.start_delays))]
    /\ UNCHANGED <<slotVars, dbVars, mainVars, sweepVars, runVars, call>>

NextMarkers == Markers

SpecMarkers == InitMarkers /\ [][NextMarkers]_vars

\* the inbound samples with x in [a, b]
Between(start_delays, a, b) ==
    {k \in 1..Len(start_delays) :
        FracLeq(a, Whole(start_delays[k])) /\ FracLeq(Whole(start_delays[k]), b)}

\* C22: in the marker list of generate_curves_for_stop_pair the markers are in
\* nondecreasing order, and any two consecutive distinct markers a < b satisfy
\* b - a >= 20 and have at least 20 inbound samples with x in [a, b].
C22_MarkerSpacing ==
    (ret.made /\ IsSome(ret.markers)) =>
        LET markers == ret.markers.val IN
        \A k \in 1..(Len(markers) - 1) :
          LET a == markers[k]
              b == markers[k + 1]
          IN  /\ FracLeq(a, b)
              /\ a # b =>
                   /\ FracLeq(Whole(20), FracSub(b, a))
                   /\ Cardinality(Between(call.start_delays, a, b)) >= 20

(***************************************************************************)
(* The join of create_curves_for_route_variant                             *)
(***************************************************************************)

\* threshold of delay seconds that will be considered
t == 3000

\* i32 division, which truncates towards zero
div_i32(a, b) == IF a < 0 THEN -((-a) \div b) ELSE a \div b

\* the stop ids of the trip of a variant, in stop order: a line and a loop
TripStops == {<<"A", "B">>, <<"A", "B", "A">>}

\* the vehicles, (trip_id, date), and the delays a row can carry
Vehicles == {<<"T1", "2023-11-14">>, <<"T2", "2023-11-14">>, <<"T1", "2023-11-15">>}
RowDelays == {<<Some(-13), Some(45)>>, <<None, Some(3000)>>, <<Some(-3000), None>>}
MaxRows == 3

\* a DbItem; stop_sequence is part of the table's key, not of the struct
DbItem(vehicle, stop_sequence, stops, delays) ==
    [trip_id |-> vehicle[1], date |-> vehicle[2], stop_sequence |-> stop_sequence,
     stop_id |-> stops[stop_sequence],
     delay_departure |-> delays[1], delay_arrival |-> delays[2]]

\* the rows of a variant: at most one per (trip_id, date, stop_sequence)
DbItems(stops) ==
    {DbItem(v, q, stops, d) : v \in Vehicles, q \in 1..Len(stops), d \in RowDelays}

SameKey(a, b) ==
    a.trip_id = b.trip_id /\ a.date = b.date /\ a.stop_sequence = b.stop_sequence

\* the sets of at most n rows
RECURSIVE RowSetsUpTo(_, _)
RowSetsUpTo(stops, n) ==
    IF n = 0 THEN {{}}
    ELSE LET fewer == RowSetsUpTo(stops, n - 1)
         IN  fewer \cup UNION {{rows \cup {item} : item \in {i \in DbItems(stops) :
                                     \A a \in rows : ~SameKey(a, i)}} : rows \in fewer}

RowSets(stops) == RowSetsUpTo(stops, MaxRows)

\* the rows in the order of the table's key
Before(a, b) ==
    \/ a.trip_id # b.trip_id /\ a.trip_id = "T1"
    \/ a.trip_id = b.trip_id /\ a.date # b.date /\ a.date = "2023-11-14"
    \/ a.trip_id = b.trip_id /\ a.date = b.date /\ a.stop_sequence < b.stop_sequence

RECURSIVE InOrder(_)
InOrder(rows) ==
    IF rows = {} THEN << >>
    ELSE LET first == CHOOSE a \in rows : \A b \in rows \ {a} : Before(a, b)
         IN  <<first>> \o InOrder(rows \ {first})

\* rows.iter().filter(|item| item.stop_id == stop_id).collect()
filter_stop(rows, stop_id) == SelectSeq(rows, LAMBDA item : item.stop_id = stop_id)

\* the inner loop for one row_s: the first row_e of the same vehicle decides
join_row(row_s, rows_matching_end) ==
    LET found == {k \in 1..Len(rows_matching_end) :
                     /\ row_s.date = rows_matching_end[k].date
                     /\ row_s.trip_id = rows_matching_end[k].trip_id}
    IN  IF found = {} THEN << >>
        ELSE LET row_e == rows_matching_end[CHOOSE k \in found : \A o \in found : k <= o]
                 d_s == row_s.delay_departure
                 d_e == row_e.delay_arrival
             IN  IF /\ IsSome(d_s)
                    /\ IsSome(d_e)
                    /\ d_s.val < t /\ d_s.val > -t /\ d_e.val < t /\ d_e.val > -t
                 THEN <<[vehicle |-> <<row_s.trip_id, row_s.date>>,
                         rounded_d_s |-> div_i32(d_s.val, 12) * 12,
                         rounded_d_e |-> div_i32(d_e.val, 12) * 12]>>
                 ELSE << >>

\* matching_pairs of the start stop i_s and the end stop i_e (counted from 1);
\* vehicle is kept with each pair to tell whose pair it is
RECURSIVE join_from(_, _, _)
join_from(rows_matching_start, k, rows_matching_end) ==
    IF k > Len(rows_matching_start) THEN << >>
    ELSE join_row(rows_matching_start[k], rows_matching_end)
           \o join_from(rows_matching_start, k + 1, rows_matching_end)

matching_pairs(rows_matching_variant, stops, i_s, i_e) ==
    join_from(filter_stop(rows_matching_variant, stops[i_s]), 1,
              filter_stop(rows_matching_variant, stops[i_e]))

InitJoin ==
    /\ SlotsIdle
    /\ MainIdle
    /\ realtime = {}
    /\ params_vec = << >>
    /\ ret = [made |-> FALSE]
    /\ \E stops \in TripStops :
         \E rows \in RowSets(stops), i_s \in 1..Len(stops), i_e \in 1..Len(stops) :
           /\ i_e > i_s
           /\ call = [made |-> TRUE, rows_matching_variant |-> InOrder(rows),
                      stops |-> stops, i_s |-> i_s, i_e |-> i_e]

\* the pairs of one start stop and one end stop are complete
JoinStops ==
    /\ call.made /\ ~ret.made
    /\ ret' = [made |-> TRUE,
               matching_pairs |-> matching_pairs(call.rows_matching_variant, call.stops,
                                                 call.i_s, call.i_e)]
    /\ UNCHANGED <<slotVars, dbVars, mainVars, sweepVars, runVars, call>>

NextJoin == JoinStops

SpecJoin == InitJoin /\ [][NextJoin]_vars

InBand(delay) == IsSome(delay) /\ delay.val > -3000 /\ delay.val < 3000

\* the vehicles observed at both stops with both delays inside the band
JoinedVehicles ==
    LET rows == Range(call.rows_matching_variant) IN
    {v \in Vehicles :
        \E a, b \in rows :
          /\ a.stop_id = call.stops[call.i_s] /\ <<a.trip_id, a.date>> = v
          /\ b.stop_id = call.stops[call.i_e] /\ <<b.trip_id, b.date>> = v
          /\ InBand(a.delay_departure)
          /\ InBand(b.delay_arrival)}

\* C23: for an earlier stop A and a later stop B of a variant the joined pairs
\* are exactly the (trip_id, date) combinations observed at both A and B whose
\* departure delay at A and arrival delay at B lie strictly between -3000 and
\* 3000: none is missing and none is counted twice.
C23_JoinSymmetry ==
    ret.made =>
        LET pairs == ret.matching_pairs IN
        /\ {pairs[k].vehicle : k \in 1..Len(pairs)} = JoinedVehicles
        /\ \A k, o \in 1..Len(pairs) : pairs[k].vehicle = pairs[o].vehicle => k = o

(***************************************************************************)
(* One file with two stop_time_updates of one primary key                  *)
(***************************************************************************)

\* a stop_time_update of stop S2 (stop_sequence 2) with both delays
DelayedUpdate(delay_arrival, delay_departure) ==
    StopTimeUpdate(Some("S2"), Some(2), StopTimeEvent(Some(delay_arrival)),
                   StopTimeEvent(Some(delay_departure)))

DelayedUpdates == {DelayedUpdate(a, d) : a \in FeedDelays, d \in FeedDelays}

\* the row an older file has left for the key of the two updates
OlderRow ==
    RowOf([EarlierParams EXCEPT !.stop_sequence = 2, !.stop_id = "S2",
                                !.time_of_recording = 1699999000])

\* a file whose only trip update (trip T1 of route R1) carries two
\* stop_time_updates; the table is empty or holds an older row, and the buffer is
\* empty or full
InitTwice ==
    /\ SlotsIdle
    /\ MainIdle
    /\ realtime \in {{}, {OlderRow}}
    /\ params_vec \in BuffersBefore
    /\ \E first \in DelayedUpdates, second \in DelayedUpdates :
         call = [made |-> TRUE, stop_time_update |-> <<first, second>>, si |-> 1]
    /\ ret = [made |-> FALSE]

\* one round of the loop of process_trip_update: process_stop_time_update(...)?
ProcessUpdate ==
    /\ call.made /\ ~ret.made
    /\ call.si <= Len(call.stop_time_update)
    /\ \E outcome \in TxOutcomes :
         \E r \in {process_stop_time_update(call.stop_time_update[call.si], ServiceDate,
                       Schedule["T1"], "T1", "R1", 1700000000,
                       "schedule-2023-11-01.zip", params_vec, realtime, outcome)} :
           /\ outcome # "ok" => r.tx = "failed"
           /\ params_vec' = r.params_vec
           /\ realtime' = r.realtime
           /\ IF r.kind = "Ok"
              THEN call' = [call EXCEPT !.si = @ + 1] /\ UNCHANGED ret
              ELSE ret' = [made |-> TRUE, ok |-> FALSE] /\ UNCHANGED call
    /\ UNCHANGED <<slotVars, mainVars, sweepVars, runVars>>

\* process_message after the trip update: write_to_database()?
FlushFile ==
    /\ call.made /\ ~ret.made
    /\ call.si > Len(call.stop_time_update)
    /\ \E outcome \in TxOutcomes :
         \E w \in {write_to_database(params_vec, realtime, outcome)} :
           /\ params_vec' = w.params_vec
           /\ realtime' = w.realtime
           /\ ret' = [made |-> TRUE, ok |-> w.ok]
    /\ UNCHANGED <<slotVars, mainVars, sweepVars, runVars, call>>

NextTwice == ProcessUpdate \/ FlushFile

SpecTwice == InitTwice /\ [][NextTwice]_vars

\* the delays a stop_time_update carries
DelaysOf(stop_time_update) ==
    <<stop_time_update.arrival.val.delay, stop_time_update.departure.val.delay>>

\* C24: when one realtime file holds two stop_time_updates of one primary key
\* with different delays, the persisted row carries, once the file has been
\* written, the delays of the update that comes later in feed order.
C24_LaterUpdateWins ==
    (/\ ret.made /\ ret.ok
     /\ DelaysOf(call.stop_time_update[1]) # DelaysOf(call.stop_time_update[2])) =>
        \A r \in realtime :
            r.stop_sequence = 2 =>
                <<r.delay_arrival, r.delay_departure>> = DelaysOf(call.stop_time_update[2])

(***************************************************************************)
(* Properties of the batched writer                                        *)
(***************************************************************************)

\* C25: the batched writer never holds more than MAX_BATCH_SIZE parameter sets
\* and no transaction is executed with more than MAX_BATCH_SIZE parameter sets,
\* also after a flush that failed.
C25_BatchCap ==
    /\ Len(params_vec) <= MaxBatchSize
    /\ (ret.made /\ ret.tx # "none") =>
          Len(call.buffer \o ret.handed) <= MaxBatchSize

\* C26: a flush is all-or-nothing with respect to the buffer: when starting the
\* transaction, executing a statement or committing fails, nothing of the
\* transaction is persisted and the buffer still holds every accumulated
\* parameter set; the buffer is emptied only after a successful commit.
C26_FlushAllOrNothing ==
    (ret.made /\ ret.tx = "failed") =>
        /\ realtime = {}
        /\ params_vec = call.buffer \o ret.handed

\* the parameter sets a file hands to the writer when every one of its
\* stop_time_updates is processed
ParamsOfFile(f) ==
    UNION {LET entity == Feeds[f].entity[ei] IN
           IF IsNone(entity.trip_update) THEN {}
           ELSE LET tu == entity.trip_update.val
                    pre == trip_preamble(tu, Schedule)
                IN  IF pre.kind # "Ok" THEN {}
                    ELSE UNION {Range(process_stop_time_update(tu.stop_time_update[si],
                                    pre.start_date, Schedule[pre.trip_id], pre.trip_id,
                                    pre.route_id, Feeds[f].timestamp.val, SCHEDULE_FILE,
                                    << >>, {}, "ok").handed) :
                                si \in 1..Len(tu.stop_time_update)} :
           ei \in 1..Len(Feeds[f].entity)}

\* handle_realtime_file has returned Ok for f, and no transaction failed in f
ReturnedOk(f) ==
    task[f].pc \in {"move", "moved"} /\ task[f].res = "ok" /\ ~task[f].txfail

\* C27: when handle_realtime_file returns success for a file, every parameter
\* set the file produced has been executed in a committed transaction, and none
\* of them remains only in the writer's buffer.
C27_FlushedPerFile ==
    \A f \in RtFiles : ReturnedOk(f) => ParamsOfFile(f) \subseteq committed

\* C28: every worker has its own batched writer, so that no transaction mixes
\* parameter sets of two realtime files.
C28_WriterPerWorker ==
    last_tx.made => \E f \in RtFiles : Range(last_tx.params) \subseteq ParamsOfFile(f)

\* the files a worker has taken up and not yet moved
Busy == {f \in RtFiles : task[f].pc \notin {"rt", "moved"}}

\* C29: schedule groups are processed strictly one after another: every worker
\* of a group has finished, each file of the group moved, before the schedule of
\* the next group is parsed, so workers of two groups never run at the same time.
C29_GroupsSequential ==
    /\ [](Busy # {} => (group.pc = "running" /\ Busy \subseteq group.files))
    /\ [][group' # group /\ group'.pc # "done" => Busy = {}]_vars

\* a second group is running after every file of the first has been moved
C29_Witness ==
    /\ group.pc = "running"
    /\ \E f \in RtFiles \ group.files : task[f].pc = "moved"
    /\ \E f \in group.files : task[f].pc \in {"entity", "stu", "flush"}

\* C30: a sweep that has started pairing files does not abort part-way because
\* of a bad file: after a realtime or schedule file with an unparseable date has
\* been quarantined, the sweep still pairs every remaining realtime file,
\* processes every collected group, the last one included, and returns Ok.
C30_SweepCompletes ==
    (sweep.pc = "done" /\ sweep.next > 0) =>
        /\ sweep.result = "ok"
        /\ sweep.next > Len(sweep.rt_filenames)
        /\ AllPairsProcessed

(***************************************************************************)
(* Properties of the sweep's grouping                                      *)
(***************************************************************************)

\* the groups of the sweep that hold realtime file f
GroupsOf(f) == {i \in 1..Len(sweep.groups) : f \in Range(sweep.groups[i].files)}

\* C31: within one sweep each schedule file is parsed and processed as at most
\* one group, every group handed to process_schedule_and_realtimes is
\* non-empty, and every realtime file that is neither skipped nor quarantined
\* is contained in exactly one processed group, the group of the schedule
\* chosen for it.
C31_OneGroupPerSchedule ==
    /\ \A i, j \in 1..Len(sweep.groups) :
         sweep.groups[i].schedule = sweep.groups[j].schedule => i = j
    /\ \A i \in 1..Len(sweep.groups) : sweep.groups[i].files # << >>
    /\ (sweep.pc = "done" /\ sweep.result = "ok") =>
         \A f \in Range(sweep.rt_filenames) \ (sweep.skipped \cup Undated(sweep)) :
            /\ Cardinality(GroupsOf(f)) = 1
            /\ \A i \in GroupsOf(f) : <<f, sweep.groups[i].schedule>> \in sweep.pairs

\* f has a date, some schedule has one, and no dated schedule is older than f
NotNewer(f) ==
    /\ file_dates[f].ok
    /\ \E n \in Range(sweep.schedule_filenames) : file_dates[n].ok
    /\ \A n \in Range(sweep.schedule_filenames) :
         file_dates[n].ok => ~DateLess(file_dates[n].date, file_dates[f].date)

\* C32: a realtime file whose date is older than or equal to the earliest
\* schedule date is skipped by the sweep: it is added to no group, is not
\* handled, and is moved neither to imported/ nor to failed/ but stays in rt/.
C32_OldFileSkipped ==
    \A f \in Range(sweep.rt_filenames) :
      NotNewer(f) =>
        /\ f \in rt_dir
        /\ f \notin imported \cup failed
        /\ GroupsOf(f) = {}
        /\ f \notin Range(sweep.realtime_files_for_current_schedule)
        /\ \A pair \in sweep.pairs : pair[1] # f

\* a finished sweep that has skipped one file and imported another
C32_Witness ==
    /\ sweep.pc = "done" /\ sweep.result = "ok"
    /\ \E f \in sweep.skipped : NotNewer(f) /\ f \in rt_dir
    /\ imported # {}

(***************************************************************************)
(* Further properties of the event correlator                              *)
(***************************************************************************)

\* no stop-time of the trip carries the stop_sequence of the update
NoSuchStopTime ==
    /\ IsSome(call.stop_time_update.stop_id)
    /\ IsSome(call.stop_time_update.stop_sequence)
    /\ \A i \in 1..Len(call.schedule_trip.stop_times) :
         call.schedule_trip.stop_times[i].stop_sequence
             # call.stop_time_update.stop_sequence.val

\* C33: get_event_times matches a feed stop_sequence only against a stop-time
\* with the equal stop_sequence: for every 32-bit value of the feed, 65536 and
\* above included, when no stop-time of the trip has that stop_sequence the
\* triple is empty and no delay is recorded for the event.
C33_StopSequenceEqual ==
    (ret.made /\ NoSuchStopTime) =>
        /\ ret.kind # "Panic"
        /\ is_empty(ret.arrival)
        /\ is_empty(ret.departure)
        /\ ret.handed = << >>

(***************************************************************************)
(* One file with a trip update that holds an unusable stop_time_update     *)
(***************************************************************************)

\* the stop_time_update of stop_sequence n, complete or lacking a field
UpdateOf(n) ==
    StopTimeUpdate(Some("S"), Some(n), StopTimeEvent(Some(30)), StopTimeEvent(Some(30)))
UpdatesOf(n) ==
    {UpdateOf(n), [UpdateOf(n) EXCEPT !.stop_id = None],
     [UpdateOf(n) EXCEPT !.stop_sequence = None]}

\* a trip update after the checks of process_trip_update
Trip(trip_id, start_date, stop_time_update) ==
    [trip_id |-> trip_id, start_date |-> start_date, stop_time_update |-> stop_time_update]

\* a loop that goes on with the next stop_time_update after an error
trip_update_step_on(c, kind) ==
    IF c.si < Len(c.entity[c.ei].stop_time_update)
    THEN [c EXCEPT !.si = @ + 1]
    ELSE [c EXCEPT !.pc = "flush"]

\* the loop of process_trip_update after process_stop_time_update(...)? returned
\* kind: an error ends the trip update, and process_message logs it
trip_update_step(c, kind) ==
    IF kind = "Err" THEN [c EXCEPT !.pc = "flush"]
    ELSE IF c.si < Len(c.entity[c.ei].stop_time_update)
    THEN [c EXCEPT !.si = @ + 1]
    ELSE [c EXCEPT !.pc = "flush"]

\* a message of two trip updates: the first, for T1 or for T3 (which has no
\* route_variant), holds two stop_time_updates; the second is complete
InitTrip ==
    /\ SlotsIdle
    /\ MainIdle
    /\ realtime = {}
    /\ params_vec = << >>
    /\ ret = [made |-> FALSE]
    /\ \E trip_id \in {"T1", "T3"}, first \in UpdatesOf(1), second \in UpdatesOf(2) :
         call = [made |-> TRUE, pc |-> "stu", ei |-> 1, si |-> 1,
                 entity |-> <<Trip(trip_id, ServiceDate, <<first, second>>),
                              Trip("T1", ServiceDate + 1, <<UpdateOf(1)>>)>>]

\* one round of the loop of process_trip_update
ProcessTripStep ==
    /\ call.made /\ ~ret.made /\ call.pc = "stu"
    /\ \E outcome \in TxOutcomes :
         \E r \in {process_stop_time_update(
                       call.entity[call.ei].stop_time_update[call.si],
                       call.entity[call.ei].start_date,
                       Schedule[call.entity[call.ei].trip_id],
                       call.entity[call.ei].trip_id, "R1", 1700000000,
                       "schedule-2023-11-01.zip", params_vec, realtime, outcome)} :
           /\ outcome # "ok" => r.tx = "failed"
           /\ params_vec' = r.params_vec
           /\ realtime' = r.realtime
           /\ call' = trip_update_step(call, r.kind)
    /\ UNCHANGED <<slotVars, mainVars, sweepVars, runVars, ret>>

\* process_message after a trip update: write_to_database()?, then the next
\* entity
FlushTrip ==
    /\ call.made /\ ~ret.made /\ call.pc = "flush"
    /\ \E outcome \in TxOutcomes :
         \E w \in {write_to_database(params_vec, realtime, outcome)} :
           /\ params_vec' = w.params_vec
           /\ realtime' = w.realtime
           /\ IF ~w.ok THEN ret' = [made |-> TRUE, ok |-> FALSE] /\ UNCHANGED call
              ELSE IF call.ei < Len(call.entity)
              THEN call' = [call EXCEPT !.pc = "stu", !.ei = @ + 1, !.si = 1]
                   /\ UNCHANGED ret
              ELSE ret' = [made |-> TRUE, ok |-> TRUE] /\ UNCHANGED call
    /\ UNCHANGED <<slotVars, mainVars, sweepVars, runVars>>

NextTrip == ProcessTripStep \/ FlushTrip

SpecTrip == InitTrip /\ [][NextTrip]_vars

\* stop_time_update k of trip update e cannot be written
Unusable(e, k) ==
    \/ IsNone(call.entity[e].stop_time_update[k].stop_id)
    \/ IsNone(call.entity[e].stop_time_update[k].stop_sequence)
    \/ IsNone(Schedule[call.entity[e].trip_id].route_variant)

\* the (date, stop_sequence) of the stop_time_updates of trip update e that come
\* before its first unusable one
Written(e) ==
    {<<call.entity[e].start_date, k>> : k \in
        {k \in 1..Len(call.entity[e].stop_time_update) : \A o \in 1..k : ~Unusable(e, o)}}

\* C34: when a stop_time_update lacks stop_id or stop_sequence, or the trip has
\* no route_variant, process_trip_update stops at that update: no later update
\* of the trip update is written, the parameter sets of the earlier ones stay in
\* the writer and are flushed, and processing goes on with the next entity
\* without failing the file.
C34_TripUpdateStops ==
    /\ call.pc = "stu" =>
         \A k \in 1..(call.si - 1) : ~Unusable(call.ei, k)
    /\ (ret.made /\ ret.ok) =>
         {<<r.date, r.stop_sequence>> : r \in realtime} = Written(1) \cup Written(2)

\* the file has succeeded: the first update of the first trip update is
\* written, the second was unusable, and the second trip update is written
C34_Witness ==
    /\ ret.made /\ ret.ok
    /\ ~Unusable(1, 1) /\ Unusable(1, 2)
    /\ {<<r.date, r.stop_sequence>> : r \in realtime}
         = {<<ServiceDate, 1>>, <<ServiceDate + 1, 1>>}

(***************************************************************************)
(* Matching an observation against a time slot (analyser/time_slots.rs)    *)
(***************************************************************************)

\* a trip that visits stop A twice, ends after midnight, and has stop-times
\* without an arrival or a departure time
LoopTrip ==
    [id |-> "T9", route_variant |-> Some("V9"),
     stop_times |-> << StopTime(1, None, Some(21600), "A"),
                       StopTime(2, Some(43200), Some(43260), "B"),
                       StopTime(3, Some(72000), Some(72060), "A"),
                       StopTime(4, Some(90000), None, "C") >>]

\* the observations of LoopTrip: the service date is kept as its weekday, and
\* stop_sequence is the column of the row the item was read from
LoopItems ==
    {[date |-> d, stop_sequence |-> q, stop_id |-> LoopTrip.stop_times[q].stop_id] :
        d \in Mon..Sun, q \in 1..Len(LoopTrip.stop_times)}
    \cup {[date |-> d, stop_sequence |-> 5, stop_id |-> "Z"] : d \in Mon..Sun}

\* NaiveDate::and_time of a NaiveTime of seconds from midnight
and_time(date, seconds) ==
    [weekday |-> date, hour |-> seconds \div 3600, minute |-> (seconds % 3600) \div 60]

\* the first element of a sequence that satisfies Test, as iter().filter().next()
first_where(seq, Test(_)) ==
    IF \E k \in 1..Len(seq) : Test(seq[k])
    THEN Some(seq[CHOOSE k \in 1..Len(seq) :
                     Test(seq[k]) /\ \A o \in 1..(k - 1) : ~Test(seq[o])])
    ELSE None

\* TimeSlot::get_datetime_from_dbitem;
\* NaiveTime::from_num_seconds_from_midnight panics on 86400 seconds or more
get_datetime_from_dbitem(trip, dbitem, et) ==
    LET IsStop(s) == s.stop_id = dbitem.stop_id
        st == first_where(trip.stop_times, IsStop)
    IN  IF IsNone(st) THEN [kind |-> "value", val |-> None]
        ELSE IF IsNone(get_time(st.val, et)) THEN [kind |-> "value", val |-> None]
        ELSE IF get_time(st.val, et).val >= SECONDS_PER_DAY THEN [kind |-> "panic"]
        ELSE [kind |-> "value",
              val |-> Some(and_time(dbitem.date, get_time(st.val, et).val))]

\* TimeSlot::matches_item
matches_item(ts, item, trip, et) ==
    LET found == get_datetime_from_dbitem(trip, item, et)
    IN  IF found.kind = "panic" THEN [kind |-> "panic"]
        ELSE IF IsSome(found.val) THEN [kind |-> "value", val |-> matches(ts, found.val.val)]
        ELSE [kind |-> "value", val |-> FALSE]

InitItem ==
    /\ SlotsIdle
    /\ MainIdle
    /\ realtime = {}
    /\ params_vec = << >>
    /\ ret = [made |-> FALSE]
    /\ \E k \in 1..Len(TIME_SLOTS), item \in LoopItems, et \in {"Arrival", "Departure"} :
         call = [made |-> TRUE, slot |-> TIME_SLOTS[k], item |-> item, et |-> et]

\* a call of slot.matches_item(item, trip, et)
MatchesItem ==
    /\ call.made /\ ~ret.made
    /\ ret' = [made |-> TRUE, result |-> matches_item(call.slot, call.item, LoopTrip, call.et)]
    /\ UNCHANGED <<slotVars, dbVars, mainVars, sweepVars, runVars, call>>

NextItem == MatchesItem

SpecItem == InitItem /\ [][NextItem]_vars

\* the scheduled seconds of the event at the stop-time of the item's
\* stop_sequence, if there are any
ScheduledSeconds(trip, item, et) ==
    IF \E k \in 1..Len(trip.stop_times) : trip.stop_times[k].stop_sequence = item.stop_sequence
    THEN get_time(trip.stop_times[CHOOSE k \in 1..Len(trip.stop_times) :
                      trip.stop_times[k].stop_sequence = item.stop_sequence], et)
    ELSE None

\* the instant service date + seconds from midnight
ScheduledInstant(date, seconds) ==
    [weekday |-> (date + seconds \div SECONDS_PER_DAY) % 7,
     hour |-> (seconds % SECONDS_PER_DAY) \div 3600,
     minute |-> (seconds % 3600) \div 60]

\* C35: matches_item returns true exactly when the slot contains the instant
\* service date + scheduled seconds of the event at the stop-time with the
\* observation's stop_sequence, also for a trip that visits a stop twice and
\* for 86400 seconds or more; it returns false when there is no such stop-time
\* or no scheduled time.
C35_MatchesItem ==
    ret.made =>
        /\ ret.result.kind = "value"
        /\ ret.result.val =
             (/\ IsSome(ScheduledSeconds(LoopTrip, call.item, call.et))
              /\ matches(call.slot,
                         ScheduledInstant(call.item.date,
                             ScheduledSeconds(LoopTrip, call.item, call.et).val)))

(***************************************************************************)
(* The samples of a curve (make_curve)                                     *)
(***************************************************************************)

\* the distinct values of a vector
Distinct(values) == {values[k] : k \in 1..Len(values)}

\* C36: make_curve emits exactly one sample for every distinct x value of its
\* input, and returns nothing exactly when the input has fewer than two
\* distinct values, also when the smallest value is 0.
C36_SamplePerValue ==
    ret.made =>
        /\ IsNone(ret.curve) <=> Cardinality(Distinct(call.values)) < 2
        /\ IsSome(ret.curve) =>
             /\ Len(ret.curve.val.tups) = Cardinality(Distinct(call.values))
             /\ {ret.curve.val.tups[k].x : k \in 1..Len(ret.curve.val.tups)}
                  = Distinct(call.values)

(***************************************************************************)
(* The recursion of recurse, one call at a time                            *)
(***************************************************************************)

\* what is left to do of a call of recurse: calls still to be made, and
\* markers to be pushed between them
Visit(lower, upper) == [op |-> "recurse", lower |-> lower, upper |-> upper]
Push(mid_x) == [op |-> "push", mid_x |-> mid_x]

\* the samples per value of the inbound curves
RecurseValues == {-120, -12, 12, 120}
RecurseCounts == {0, 10, 20}

\* recurse is called on a curve of make_curve with any lower <= upper and any
\* count: 1, 30, or the number of samples of the curve
InitRecurse ==
    /\ SlotsIdle
    /\ MainIdle
    /\ realtime = {}
    /\ params_vec = << >>
    /\ ret = [made |-> FALSE, markers |-> << >>]
    /\ \E n \in [RecurseValues -> RecurseCounts] :
         \E initial \in {make_curve(samples(n, RecurseValues), None)} :
           /\ IsSome(initial)
           /\ \E lower \in RecurseValues, upper \in RecurseValues :
                /\ lower <= upper
                /\ \E count \in {1, 30, Len(samples(n, RecurseValues))} :
                     call = [made |-> TRUE, start_delays |-> samples(n, RecurseValues),
                             initial_delay_curve |-> initial.val.tups, count |-> count,
                             lower |-> lower, upper |-> upper,
                             stack |-> <<Visit(Whole(lower), Whole(upper))>>]

\* a new marker no nearer than 10 seconds to the lower one
min_x_by_delay_near(lower) == FracAdd(lower, Whole(MARKER_SECONDS \div 2))

\* the bounds of recurse for a new marker, 20 seconds away from the existing ones
min_x_by_delay(lower) == FracAdd(lower, Whole(MARKER_SECONDS))
max_x_by_delay(upper) == FracSub(upper, Whole(MARKER_SECONDS))

\* a call of recurse, each let of the function computed once: with
\* min_x <= max_x it calls itself for the lower part, pushes mid_x and calls
\* itself for the upper part; otherwise it returns
Recurse ==
    /\ call.made /\ ~ret.made /\ call.stack # << >>
    /\ Head(call.stack).op = "recurse"
    /\ \E lower \in {Head(call.stack).lower}, upper \in {Head(call.stack).upper} :
       \E lower_y \in {y_at_x(call.initial_delay_curve, lower)},
          upper_y \in {y_at_x(call.initial_delay_curve, upper)} :
       \E min_y_by_count \in {FracAdd(lower_y, Frac(MARKER_POINTS, call.count))},
          max_y_by_count \in {FracSub(upper_y, Frac(MARKER_POINTS, call.count))} :
       \E min_x_by_count \in {x_at_y(call.initial_delay_curve, min_y_by_count)},
          max_x_by_count \in {x_at_y(call.initial_delay_curve, max_y_by_count)} :
       \E min_x \in {FracMax(min_x_by_delay(lower), min_x_by_count)},
          max_x \in {FracMin(max_x_by_delay(upper), max_x_by_count)} :
         IF FracLeq(min_x, max_x)
         THEN \E mid_x \in {FracDiv(FracAdd(min_x, max_x), Whole(2))} :
                call' = [call EXCEPT !.stack =
                           <<Visit(lower, mid_x), Push(mid_x), Visit(mid_x, upper)>>
                             \o Tail(@)]
         ELSE call' = [call EXCEPT !.stack = Tail(@)]
    /\ UNCHANGED <<slotVars, dbVars, mainVars, sweepVars, runVars, ret>>

\* markers.push(mid_x)
PushMarker ==
    /\ call.made /\ ~ret.made /\ call.stack # << >>
    /\ Head(call.stack).op = "push"
    /\ ret' = [ret EXCEPT !.markers = Append(@, Head(call.stack).mid_x)]
    /\ call' = [call EXCEPT !.stack = Tail(@)]
    /\ UNCHANGED <<slotVars, dbVars, mainVars, sweepVars, runVars>>

\* the outermost call returns
RecurseReturns ==
    /\ call.made /\ ~ret.made /\ call.stack = << >>
    /\ ret' = [ret EXCEPT !.made = TRUE]
    /\ UNCHANGED <<slotVars, dbVars, mainVars, sweepVars, runVars, call>>

NextRecurse == Recurse \/ PushMarker \/ RecurseReturns

\* the code of recurse runs on until it returns
SpecRecurse == InitRecurse /\ [][NextRecurse]_vars /\ WF_vars(NextRecurse)

\* the length of the interval of a call
Width(frame) == FracSub(frame.upper, frame.lower)

\* the two calls a call of recurse makes are on intervals at least 20 shorter
Shorter ==
    Len(call'.stack) > Len(call.stack) =>
        /\ FracLeq(Width(call'.stack[1]), FracSub(Width(Head(call.stack)), Whole(20)))
        /\ FracLeq(Width(call'.stack[3]), FracSub(Width(Head(call.stack)), Whole(20)))

\* the call is the one of generate_curves_for_stop_pair for 30 samples
ThirtySamples ==
    /\ Len(call.start_delays) = 30
    /\ call.count = 30
    /\ call.lower = call.initial_delay_curve[1].x
    /\ call.upper = call.initial_delay_curve[Len(call.initial_delay_curve)].x

\* C37: recurse terminates for every inbound curve, every lower <= upper and
\* every count >= 1, because each recursive call is made on an interval at
\* least 20 shorter than its parent's; and with only 30 samples between min
\* and max it inserts at most one interior marker.
C37_RecurseTerminates ==
    /\ <>ret.made
    /\ [][Shorter]_vars
    /\ [](ThirtySamples => Len(ret.markers) <= 1)

\* a call has returned after calls of itself that have pushed markers
C37_Witness ==
    /\ ret.made
    /\ Len(ret.markers) >= 2

(***************************************************************************)
(* The rounding of joined delays                                           *)
(***************************************************************************)

\* m is a multiple of 12 and no multiple of 12 is nearer to d
Nearest12(d, m) ==
    /\ m % 12 = 0
    /\ abs(d - m) <= 6

\* C38: before a joined pair is stored, each of its two integer delays d with
\* -3000 < d < 3000 is replaced by the multiple of 12 nearest to d, for
\* positive and for negative d alike.
C38_RoundedToNearest ==
    ret.made =>
        \A k \in 1..Len(ret.matching_pairs) :
            \E a, b \in Range(call.rows_matching_variant) :
                /\ <<a.trip_id, a.date>> = ret.matching_pairs[k].vehicle
                /\ <<b.trip_id, b.date>> = ret.matching_pairs[k].vehicle
                /\ a.stop_id = call.stops[call.i_s]
                /\ b.stop_id = call.stops[call.i_e]
                /\ InBand(a.delay_departure)
                /\ InBand(b.delay_arrival)
                /\ Nearest12(a.delay_departure.val, ret.matching_pairs[k].rounded_d_s)
                /\ Nearest12(b.delay_arrival.val, ret.matching_pairs[k].rounded_d_e)

(***************************************************************************)
(* Which curves the figures of a route variant hold                        *)
(***************************************************************************)

\* the largest numbers of departure delays of a stop and of joined pairs of a
\* stop pair
MaxDepartures == 12
MaxPairs == 22

\* n distinct delays, multiples of 12
Delays(n) == [k \in 1..n |-> 12 * k]

\* the curve of a stop in create_percentile_curves_for_route_variant and in
\* create_delay_curves_for_route_variant
curve_of_stop(rows_matching_start) ==
    IF Len(rows_matching_start) > 10 THEN make_curve(rows_matching_start, None) ELSE None

\* the curve of a stop in the figure of all stops of
\* create_curves_for_route_variant: draw_to_figure draws the curve of make_curve
curve_of_all_stops(departues) ==
    IF Len(departues) > 5 THEN make_curve(departues, None) ELSE None

\* whether create_curves_for_route_variant calls generate_curves_for_stop_pair
curves_of_stop_pair(pairs) == Len(pairs) > 20

\* a variant with one stop that has some departure delays, and one stop pair
\* with some joined pairs
InitFigures ==
    /\ SlotsIdle
    /\ MainIdle
    /\ realtime = {}
    /\ params_vec = << >>
    /\ ret = [made |-> FALSE, done |-> {}, curves |-> {}, pair_curves |-> FALSE]
    /\ \E n \in 0..MaxDepartures, m \in 0..MaxPairs :
         call = [made |-> TRUE, departures |-> Delays(n), matching_pairs |-> Delays(m)]

\* create_percentile_curves_for_route_variant up to the curves of the stops
PercentileCurves ==
    /\ call.made /\ "percentile" \notin ret.done
    /\ ret' = [ret EXCEPT !.made = TRUE, !.done = @ \cup {"percentile"},
                          !.curves = IF IsSome(curve_of_stop(call.departures))
                                     THEN @ \cup {"percentile"} ELSE @]
    /\ UNCHANGED <<slotVars, dbVars, mainVars, sweepVars, runVars, call>>

\* create_delay_curves_for_route_variant up to the curves of the stops
DelayCurves ==
    /\ call.made /\ "delay" \notin ret.done
    /\ ret' = [ret EXCEPT !.made = TRUE, !.done = @ \cup {"delay"},
                          !.curves = IF IsSome(curve_of_stop(call.departures))
                                     THEN @ \cup {"delay"} ELSE @]
    /\ UNCHANGED <<slotVars, dbVars, mainVars, sweepVars, runVars, call>>

\* create_curves_for_route_variant: the figure of all stops and the figures of
\* the stop pairs
CurvesForRouteVariant ==
    /\ call.made /\ "all_stops" \notin ret.done
    /\ ret' = [ret EXCEPT !.made = TRUE, !.done = @ \cup {"all_stops"},
                          !.curves = IF IsSome(curve_of_all_stops(call.departures))
                                     THEN @ \cup {"all_stops"} ELSE @,
                          !.pair_curves = curves_of_stop_pair(call.matching_pairs)]
    /\ UNCHANGED <<slotVars, dbVars, mainVars, sweepVars, runVars, call>>

NextFigures == PercentileCurves \/ DelayCurves \/ CurvesForRouteVariant

SpecFigures == InitFigures /\ [][NextFigures]_vars

\* C39: a per-stop delay curve is built only for stops with at least 11
\* observations, in every figure, and stop-pair curves are built only for stop
\* pairs with at least 21 joined pairs.
C39_CurveThresholds ==
    /\ ret.curves # {} => Len(call.departures) >= 11
    /\ ret.pair_curves => Len(call.matching_pairs) >= 21

(***************************************************************************)
(* Manual mode (run_as_manual)                                             *)
(***************************************************************************)

\* paths of the command line, as their components between the separators '/'
SchedulePaths == {<<"data", "2023-11-01.zip">>, <<"2023-11-01.zip">>}
RtPaths == {<<"data", "a.pb">>, <<"data", "b.pb">>, <<"c.pb">>}

\* str::rfind('/'): the number of the component before the last separator
rfind_slash(path) == IF Len(path) > 1 THEN Some(Len(path) - 1) ELSE None

\* Importer::new leaves target_dir and fail_dir at None, and run_as_manual
\* does not call set_dir_paths
InitManual ==
    /\ SlotsIdle
    /\ realtime = {}
    /\ params_vec = << >>
    /\ imported = {}
    /\ failed = {}
    /\ group = [pc |-> "none", files |-> {}, result |-> "none"]
    /\ task = [f \in RtFiles |-> Untouched]
    /\ committed = {}
    /\ last_tx = NoTx
    /\ faults = 0
    /\ sweep = SweepIdle
    /\ run = RunIdle
    /\ ret = [made |-> FALSE, kind |-> "none"]
    /\ \E gtfs_schedule_filename \in SchedulePaths,
          gtfs_realtime_filenames \in SUBSET RtPaths \ {{}} :
         /\ schedule_dir = {gtfs_schedule_filename}
         /\ rt_dir = gtfs_realtime_filenames
         /\ call = [made |-> TRUE, pc |-> "schedule",
                    gtfs_schedule_filename |-> gtfs_schedule_filename,
                    gtfs_realtime_filenames |-> gtfs_realtime_filenames,
                    target_dir |-> None, fail_dir |-> None,
                    importer |-> FALSE, handled |-> {}, errors |-> {}]

\* process_schedule_and_realtimes up to Gtfs::new: a schedule that cannot be
\* parsed is moved only when there is a fail_dir; the error is logged by
\* run_as_manual, which returns Ok
ManualSchedule ==
    /\ call.made /\ ~ret.made /\ call.pc = "schedule"
    /\ \E outcome \in {"ok", "parse_fail"} :
         IF outcome = "ok"
         THEN /\ call' = [call EXCEPT !.pc = "importer"]
              /\ UNCHANGED <<ret, schedule_dir, failed>>
         ELSE /\ \E m \in {move_file_to_dir(call.gtfs_schedule_filename, schedule_dir, failed)} :
                   IF IsNone(call.fail_dir)
                   THEN ret' = [made |-> TRUE, kind |-> "Ok"] /\ UNCHANGED <<schedule_dir, failed>>
                   ELSE /\ schedule_dir' = m.from
                        /\ failed' = m.to
                        /\ ret' = [made |-> TRUE, kind |-> "Ok"]
              /\ UNCHANGED call
    /\ UNCHANGED <<slotVars, dbVars, sweepVars, runVars, rt_dir, imported, group, task,
                   committed, last_tx, faults>>

\* short_filename = &name[name.rfind('/').unwrap() + 1 ..], then
\* PerScheduleImporter::new(...)?
ManualImporter ==
    /\ call.made /\ ~ret.made /\ call.pc = "importer"
    /\ IF IsNone(rfind_slash(call.gtfs_schedule_filename))
       THEN ret' = [made |-> TRUE, kind |-> "Panic"] /\ UNCHANGED call
       ELSE \E outcome \in {"ok", "conn_fail"} :
              IF outcome = "ok"
              THEN call' = [call EXCEPT !.pc = "files", !.importer = TRUE] /\ UNCHANGED ret
              ELSE ret' = [made |-> TRUE, kind |-> "Ok"] /\ UNCHANGED call
    /\ UNCHANGED <<slotVars, dbVars, mainVars, sweepVars, runVars>>

\* process_realtime for one path of the parallel iterator: the file is moved
\* only to a directory that is Some
ManualRealtime(f) ==
    /\ call.made /\ ~ret.made /\ call.pc = "files"
    /\ f \in call.gtfs_realtime_filenames \ call.handled
    /\ \E outcome \in {"ok", "err"} :
         \E dir \in {IF outcome = "ok" THEN call.target_dir ELSE call.fail_dir} :
           /\ call' = [call EXCEPT !.handled = @ \cup {f},
                                   !.errors = IF outcome = "ok" THEN @ ELSE @ \cup {f}]
           /\ IF IsNone(dir) THEN UNCHANGED <<rt_dir, imported, failed>>
              ELSE \E m \in {move_file_to_dir(f, rt_dir, IF outcome = "ok" THEN imported ELSE failed)} :
                     /\ rt_dir' = m.from
                     /\ imported' = IF outcome = "ok" THEN m.to ELSE imported
                     /\ failed' = IF outcome = "ok" THEN failed ELSE m.to
    /\ UNCHANGED <<slotVars, dbVars, sweepVars, runVars, schedule_dir, group, task,
                   committed, last_tx, faults, ret>>

\* the parallel iterator is done: process_schedule_and_realtimes and
\* run_as_manual return Ok
ManualReturns ==
    /\ call.made /\ ~ret.made /\ call.pc = "files"
    /\ call.handled = call.gtfs_realtime_filenames
    /\ ret' = [made |-> TRUE, kind |-> "Ok"]
    /\ UNCHANGED <<slotVars, dbVars, mainVars, sweepVars, runVars, call>>

NextManual ==
    \/ ManualSchedule
    \/ ManualImporter
    \/ \E f \in RtPaths : ManualRealtime(f)
    \/ ManualReturns

SpecManual == InitManual /\ [][NextManual]_vars

\* C40: manual mode processes exactly the realtime paths of the command line,
\* each with the given schedule, lists no directory, moves no file to imported/
\* or failed/ whether processing succeeds or fails, and returns Ok even when
\* processing the schedule or a realtime file fails.
C40_ManualMode ==
    /\ imported = {}
    /\ failed = {}
    /\ rt_dir = call.gtfs_realtime_filenames
    /\ schedule_dir = {call.gtfs_schedule_filename}
    /\ sweep = SweepIdle
    /\ call.handled \subseteq call.gtfs_realtime_filenames
    /\ ret.made =>
         /\ ret.kind = "Ok"
         /\ call.importer => call.handled = call.gtfs_realtime_filenames

=============================================================================
